---- MODULE Spec2Model ----
(***************************************************************************)
(* State-machine model of the portfolio / course-management application.   *)
(* The relational store is the state; every request handler is an action.  *)
(***************************************************************************)
EXTENDS Integers, FiniteSets, Sequences, TLC

VARIABLES
    documents,      \* Document table: set of rows
    notes,          \* Note table: set of rows
    blog_posts,     \* BlogPost table: set of rows
    enrollments,    \* Enrollment table: set of rows [id, user, course, status]
    user_progress,  \* UserProgress table: set of rows
    modules,        \* CourseModule table: set of rows [id, course, order, is_published]
    courses,        \* Course table: course -> row
    requests,       \* enroll_course requests in flight: slot -> locals and position
    response,       \* the response to the most recent request
    served,         \* history: number of FileResponse objects document_download returned
    lessons,        \* Lesson table: set of rows
    assignments,    \* Assignment table: set of rows
    submissions,    \* Submission table: set of rows
    submit_requests,    \* submit_assignment requests in flight: slot -> locals
    parent_connections, \* ParentConnection table: set of rows
    connect_requests,   \* parent_connect requests in flight: slot -> locals
    contact_messages,   \* ContactMessage table: sequence of rows, in insertion order
    contact_requests,   \* contact requests in flight: slot -> locals
    outbox,         \* the notification mails the mail backend accepted
    auth_users,     \* CustomUser rows the superuser bootstrap reads and writes
    startups,       \* application start-ups in progress: process -> position
    view_requests,  \* blog_detail / document_download requests in flight
    sessions,       \* the users whose browser holds an authenticated session
    email_verified, \* the users whose CustomUser.email_verified is true
    email_verifications,    \* EmailVerification table: set of rows
    clock,          \* the time, in ticks of HoursPerTick hours
    meeting,        \* the Meeting row
    meeting_attendees,  \* the rows of Meeting.attendees: set of [id, user]
    booking_requests    \* meeting_detail requests in flight: slot -> locals

coursework == <<lessons, assignments, submissions, submit_requests>>
family == <<parent_connections, connect_requests>>
auth == <<sessions, email_verified, email_verifications, clock>>
booking == <<meeting, meeting_attendees, booking_requests>>
late == <<view_requests, auth, booking>>
site == <<contact_messages, contact_requests, outbox, auth_users, startups,
          late>>

vars == <<documents, notes, blog_posts, enrollments, user_progress, modules,
          courses, requests, response, served, coursework, family, site>>

(***************************************************************************)
(* Bounds of the model.                                                    *)
(***************************************************************************)
MaxCount == 2        \* cap of the view / download counters
MaxModules == 1      \* cap of the CourseModule rows of a course
MaxCourseModules == 3    \* the same cap where only the modules are managed
MaxLessons == 1      \* cap of the Lesson rows of a module
MaxMessages == 2     \* cap of the ContactMessage rows
MaxEnrollments == 3  \* cap of the Enrollment ids handed out before a delete
MaxCodes == 2        \* cap of the EmailVerification rows
MaxClock == 3        \* the last tick of the clock
MaxChapters == 10    \* cap of chapters_completed / total_chapters
NumSlots == 2        \* enroll_course requests that may be in flight together

None == "None"

(***************************************************************************)
(* Users.  The CustomUser rows of the store, and the anonymous requester.  *)
(***************************************************************************)
AnonymousUser == "anonymous"
Users == {"teacher", "student", "staff", "root"}
Requesters == Users \cup {AnonymousUser}
CourseIds == {"c1", "c2"}

is_authenticated(u) == u # AnonymousUser
is_staff(u) == u = "staff"
is_superuser(u) == u = "root"
role(u) ==
    CASE u = "teacher" -> "instructor"
      [] u = "lecturer" -> "instructor"
      [] u = "parent" -> "parent"
      [] u = "guardian" -> "parent"
      [] u = "student" -> "student"
      [] u = "pupil" -> "student"
      [] u = "staff" -> "admin"
      [] OTHER -> "visitor"

ACCESS_LEVELS == {"public", "registered", "private", "course_students"}
STATUS_CHOICES == {"active", "paused", "dropped", "completed"}

(***************************************************************************)
(* Queries on the Enrollment table.                                        *)
(***************************************************************************)
EnrollmentRows(u, c) == {e \in enrollments : e.user = u /\ e.course = c}

\* Mutant: the query does not filter on the course.
EnrollmentExists_any_course(u, c) == \E e \in enrollments : e.user = u

\* Enrollment.objects.filter(user=u, course=c).exists()
EnrollmentExists(u, c) == EnrollmentRows(u, c) # {}

\* Enrollment.objects.filter(user=u, course__in=cs).exists()
EnrollmentExistsIn(u, cs) == \E c \in cs : EnrollmentExists(u, c)

(***************************************************************************)
(* Responses.  Every handler ends in one response; the model keeps the     *)
(* response to the most recent request.                                    *)
(***************************************************************************)
Response(v, u, o) == [view |-> v, user |-> u, outcome |-> o, context |-> <<>>]
NoResponse == Response(None, None, None)

\* @login_required: an unauthenticated request never reaches the view body.
login_required(u, outcome) ==
    IF ~is_authenticated(u) THEN "redirect_login" ELSE outcome

\* get_object_or_404(Model, slug=slug): the rows of a table with that slug.
\* slug is unique in every content table.
Slugs == {"item"}
BySlug(rows, slug) == {r \in rows : r.slug = slug}
TheRow(rows) == CHOOSE r \in rows : TRUE
Replace(rows, old, new) == (rows \ {old}) \cup {new}

(***************************************************************************)
(* blog_detail                                                             *)
(***************************************************************************)
\* Mutant: the private branch admits the author, as note_detail does.
blog_detail_view_author(u, b) ==
    IF ~b.is_published THEN "404"
    ELSE IF b.access_level = "private"
        THEN IF b.author # u /\ ~(is_staff(u) \/ is_superuser(u))
                THEN "404" ELSE "render"
    ELSE IF b.access_level = "course_students" /\ b.related_courses # {}
        THEN IF ~EnrollmentExistsIn(u, b.related_courses) /\ ~is_staff(u)
                THEN "redirect_course_list" ELSE "render"
    ELSE "render"

blog_detail_view(u, b) ==
    IF ~b.is_published THEN "404"
    ELSE IF b.access_level = "private"
        THEN IF ~(is_staff(u) \/ is_superuser(u)) THEN "404" ELSE "render"
    ELSE IF b.access_level = "registered"
        THEN IF ~is_authenticated(u) THEN "redirect_portfolio_login" ELSE "render"
    ELSE IF b.access_level = "course_students"
        THEN IF b.related_courses = {}
                THEN IF ~is_authenticated(u) THEN "redirect_portfolio_login"
                     ELSE "render"
                ELSE IF ~EnrollmentExistsIn(u, b.related_courses) /\ ~is_staff(u)
                        THEN "redirect_course_list"
                        ELSE "render"
    ELSE "render"

blog_detail_outcome(u, found) ==
    login_required(u, IF found = {} THEN "404"
                      ELSE blog_detail_view(u, TheRow(found)))

\* blog_post.views += 1; blog_post.save(update_fields=['views'])
increment_views(b) == [b EXCEPT !.views = @ + 1]

blog_detail(u, slug) ==
    LET found == BySlug(blog_posts, slug)
        o == blog_detail_outcome(u, found) IN
    /\ o = "render" => TheRow(found).views < MaxCount
    /\ blog_posts' = IF o = "render"
                        THEN Replace(blog_posts, TheRow(found),
                                     increment_views(TheRow(found)))
                        ELSE blog_posts
    /\ response' = Response("blog_detail", u, o)
    /\ UNCHANGED <<documents, notes, enrollments, user_progress, modules,
                   courses, requests, served>>
    /\ UNCHANGED <<coursework, family, site>>

(***************************************************************************)
(* note_detail                                                             *)
(***************************************************************************)
\* Mutant: the private branch admits staff only, as blog_detail does.
note_detail_view_staff_only(u, n) ==
    IF ~n.is_published THEN "404"
    ELSE IF n.access_level = "private"
        THEN IF ~is_staff(u) THEN "404" ELSE "render"
    ELSE IF n.access_level = "course_students" /\ n.course # None
        THEN IF ~EnrollmentExists(u, n.course) /\ ~is_staff(u)
                THEN "redirect_course_detail" ELSE "render"
    ELSE "render"

note_detail_view(u, n) ==
    IF ~n.is_published THEN "404"
    ELSE IF n.access_level = "private"
        THEN IF n.author # u /\ ~is_staff(u) THEN "404" ELSE "render"
    ELSE IF n.access_level = "registered"
        THEN IF ~is_authenticated(u) THEN "redirect_portfolio_login" ELSE "render"
    ELSE IF n.access_level = "course_students"
        THEN IF n.course # None
                THEN IF ~EnrollmentExists(u, n.course) /\ ~is_staff(u)
                        THEN "redirect_course_detail"
                        ELSE "render"
                ELSE "render"
    ELSE "render"

note_detail_outcome(u, found) ==
    login_required(u, IF found = {} THEN "404"
                      ELSE note_detail_view(u, TheRow(found)))

note_detail(u, slug) ==
    /\ response' = Response("note_detail", u,
                            note_detail_outcome(u, BySlug(notes, slug)))
    /\ UNCHANGED <<documents, notes, blog_posts, enrollments, user_progress,
                   modules, courses, requests, served>>
    /\ UNCHANGED <<coursework, family, site>>

(***************************************************************************)
(* document_detail and document_download                                   *)
(***************************************************************************)
\* Mutant: the course_students branch omits the Enrollment query.
can_download_no_enrollment(u, d) ==
    IF d.access_level = "public" THEN TRUE
    ELSE IF d.access_level = "registered" /\ is_authenticated(u) THEN TRUE
    ELSE IF d.access_level = "course_students" THEN is_authenticated(u)
    ELSE IF d.access_level = "private" /\ (d.owner = u \/ is_staff(u)) THEN TRUE
    ELSE FALSE

\* Mutant: the public branch is missing.
can_download_no_public(u, d) ==
    IF d.access_level = "registered" /\ is_authenticated(u) THEN TRUE
    ELSE IF d.access_level = "course_students"
        THEN IF d.course # None
                THEN EnrollmentExists(u, d.course) \/ is_staff(u)
                ELSE is_authenticated(u)
    ELSE IF d.access_level = "private" /\ (d.owner = u \/ is_staff(u)) THEN TRUE
    ELSE FALSE

\* The can_download flag both document views compute.
can_download(u, d) ==
    IF d.access_level = "public" THEN TRUE
    ELSE IF d.access_level = "registered" /\ is_authenticated(u) THEN TRUE
    ELSE IF d.access_level = "course_students"
        THEN IF d.course # None
                THEN EnrollmentExists(u, d.course) \/ is_staff(u)
                ELSE is_authenticated(u)
    ELSE IF d.access_level = "private" /\ (d.owner = u \/ is_staff(u)) THEN TRUE
    ELSE FALSE

document_detail_view(u, d) ==
    IF ~d.is_published THEN "404"
    ELSE "render"

document_detail_outcome(u, found) ==
    login_required(u, IF found = {} THEN "404"
                      ELSE document_detail_view(u, TheRow(found)))

document_detail(u, slug) ==
    /\ response' = Response("document_detail", u,
                            document_detail_outcome(u, BySlug(documents, slug)))
    /\ UNCHANGED <<documents, notes, blog_posts, enrollments, user_progress,
                   modules, courses, requests, served>>
    /\ UNCHANGED <<coursework, family, site>>

document_download_view(u, d) ==
    IF ~can_download(u, d) THEN "redirect_document_detail"
    ELSE "file"

document_download_outcome(u, found) ==
    login_required(u, IF found = {} THEN "404"
                      ELSE document_download_view(u, TheRow(found)))

\* Mutant: the incremented counter is never saved.
increment_download_count_unsaved(d) == d

\* document.download_count += 1; document.save(update_fields=['download_count'])
increment_download_count(d) == [d EXCEPT !.download_count = @ + 1]

document_download(u, slug) ==
    LET found == BySlug(documents, slug)
        o == document_download_outcome(u, found) IN
    /\ o = "file" => TheRow(found).download_count < MaxCount
    /\ documents' = IF o = "file"
                       THEN Replace(documents, TheRow(found),
                                    increment_download_count(TheRow(found)))
                       ELSE documents
    /\ served' = IF o = "file" THEN served + 1 ELSE served
    /\ response' = Response("document_download", u, o)
    /\ UNCHANGED <<notes, blog_posts, enrollments, user_progress, modules,
                   courses, requests>>
    /\ UNCHANGED <<coursework, family, site>>

(***************************************************************************)
(* The admin site: staff edit rows through the registered ModelAdmins.     *)
(***************************************************************************)
AdminResponse == Response("admin", "staff", "saved")

BlogPostAdmin(b, a, p, rc) ==
    /\ b \in blog_posts
    /\ blog_posts' = Replace(blog_posts, b,
                             [b EXCEPT !.access_level = a, !.is_published = p,
                                       !.related_courses = rc])
    /\ response' = AdminResponse
    /\ UNCHANGED <<documents, notes, enrollments, user_progress, modules,
                   courses, requests, served>>
    /\ UNCHANGED <<coursework, family, site>>

NoteAdmin(n, a, p, c) ==
    /\ n \in notes
    /\ notes' = Replace(notes, n,
                        [n EXCEPT !.access_level = a, !.is_published = p,
                                  !.course = c])
    /\ response' = AdminResponse
    /\ UNCHANGED <<documents, blog_posts, enrollments, user_progress, modules,
                   courses, requests, served>>
    /\ UNCHANGED <<coursework, family, site>>

\* download_count is a readonly field of DocumentAdmin.
DocumentAdmin(d, a, p, c) ==
    /\ d \in documents
    /\ documents' = Replace(documents, d,
                            [d EXCEPT !.access_level = a, !.is_published = p,
                                      !.course = c])
    /\ response' = AdminResponse
    /\ UNCHANGED <<notes, blog_posts, enrollments, user_progress, modules,
                   courses, requests, served>>
    /\ UNCHANGED <<coursework, family, site>>

NextId(rows) == IF rows = {} THEN 1
                ELSE (CHOOSE i \in {r.id : r \in rows} :
                          \A r \in rows : r.id <= i) + 1

\* Mutant: the table has no unique constraint.
EnrollmentUnique_unconstrained(u, c) == TRUE

\* unique_together = ['user', 'course'] of Enrollment
EnrollmentUnique(u, c) == EnrollmentRows(u, c) = {}

NewEnrollment(u, c, s) == [id |-> NextId(enrollments), user |-> u, course |-> c,
                           status |-> s]

\* EnrollmentAdmin: add a row (the form validates the unique pair), or edit
\* the status of a row (list_editable).
EnrollmentAdmin(u, c, s) ==
    /\ enrollments' =
          IF EnrollmentUnique(u, c)
             THEN enrollments \cup {NewEnrollment(u, c, s)}
             ELSE {IF e.user = u /\ e.course = c THEN [e EXCEPT !.status = s]
                                                 ELSE e : e \in enrollments}
    /\ response' = AdminResponse
    /\ UNCHANGED <<documents, notes, blog_posts, user_progress, modules,
                   courses, requests, served>>
    /\ UNCHANGED <<coursework, family, site>>

(***************************************************************************)
(* Initial rows.  Field values are the model defaults; the author / owner  *)
(* of the content rows is the teacher.                                     *)
(***************************************************************************)
InitBlogPost == [slug |-> "item", author |-> "teacher", is_published |-> FALSE,
                 access_level |-> "public", views |-> 0,
                 related_courses |-> {}]
InitNote == [slug |-> "item", author |-> "teacher", is_published |-> FALSE,
             access_level |-> "registered", course |-> None]
InitDocument == [slug |-> "item", owner |-> "teacher", is_published |-> FALSE,
                 access_level |-> "registered", course |-> None,
                 download_count |-> 0]
InitCourse == [instructor |-> "teacher", is_active |-> TRUE,
               is_open_for_enrollment |-> TRUE, price |-> 0, is_free |-> TRUE,
               enrollment_count |-> 0]

Slots == 1..NumSlots
IdleRequest == [pc |-> "idle", user |-> None, course |-> None,
                enrollment |-> 0, total_chapters |-> 0]

\* The locals of a submit_assignment request and of a parent_connect request.
IdleSubmit == [pc |-> "idle", user |-> None, assignment |-> None,
               existing_submission |-> 0, text_content |-> None]
IdleConnect == [pc |-> "idle", user |-> None, student_email |-> None]
IdleContact == [pc |-> "idle", user |-> None, contact_message |-> 0]
IdleStartup == [pc |-> "idle", result |-> None]
IdleView == [pc |-> "idle", view |-> None, user |-> None, loaded |-> None]
Processes == 1..NumSlots

\* Parts of the store a specification leaves empty.
UnusedFamily ==
    /\ parent_connections = {}
    /\ connect_requests = [r \in Slots |-> IdleConnect]

UnusedAuth ==
    /\ sessions = {}
    /\ email_verified = {}
    /\ email_verifications = {}
    /\ clock = 0

IdleBooking == [pc |-> "idle", user |-> None]
\* max_attendees is a nullable integer: null, or a value.
InitMeeting == [slug |-> "item", is_active |-> TRUE,
                max_attendees |-> [null |-> TRUE, value |-> 0]]

UnusedBooking ==
    /\ meeting = InitMeeting
    /\ meeting_attendees = {}
    /\ booking_requests = [r \in Slots |-> IdleBooking]

UnusedLate ==
    /\ view_requests = [r \in Slots |-> IdleView]
    /\ UnusedAuth
    /\ UnusedBooking

UnusedSite ==
    /\ contact_messages = <<>>
    /\ contact_requests = [r \in Slots |-> IdleContact]
    /\ outbox = <<>>
    /\ auth_users = {}
    /\ startups = [p \in Processes |-> IdleStartup]
    /\ UnusedLate

InitCommon ==
    /\ enrollments = {}
    /\ user_progress = {}
    /\ modules = {}
    /\ courses = [c \in CourseIds |-> InitCourse]
    /\ requests = [r \in Slots |-> IdleRequest]
    /\ response = NoResponse
    /\ served = 0
    /\ lessons = {}
    /\ assignments = {}
    /\ submissions = {}
    /\ submit_requests = [r \in Slots |-> IdleSubmit]
    /\ parent_connections = {}
    /\ connect_requests = [r \in Slots |-> IdleConnect]
    /\ UnusedSite

(***************************************************************************)
(* Content access: the store holds one content row, in one of the three    *)
(* content tables; students gain Enrollment rows through the admin.        *)
(***************************************************************************)
Students == {"student"}
LinkedCourses == {"c1"}    \* the courses content rows get linked to

InitContent ==
    /\ InitCommon
    /\ \E t \in {"blog", "note", "document"} :
          /\ blog_posts = IF t = "blog" THEN {InitBlogPost} ELSE {}
          /\ notes = IF t = "note" THEN {InitNote} ELSE {}
          /\ documents = IF t = "document" THEN {InitDocument} ELSE {}

NextContent ==
    \/ \E u \in Requesters, slug \in Slugs : blog_detail(u, slug)
    \/ \E u \in Requesters, slug \in Slugs : note_detail(u, slug)
    \/ \E u \in Requesters, slug \in Slugs : document_detail(u, slug)
    \/ \E u \in Requesters, slug \in Slugs : document_download(u, slug)
    \/ \E b \in blog_posts, a \in ACCESS_LEVELS, p \in BOOLEAN,
          rc \in SUBSET LinkedCourses : BlogPostAdmin(b, a, p, rc)
    \/ \E n \in notes, a \in ACCESS_LEVELS, p \in BOOLEAN,
          c \in LinkedCourses \cup {None} : NoteAdmin(n, a, p, c)
    \/ \E d \in documents, a \in ACCESS_LEVELS, p \in BOOLEAN,
          c \in LinkedCourses \cup {None} : DocumentAdmin(d, a, p, c)
    \/ \E u \in Students, c \in CourseIds, s \in STATUS_CHOICES :
          EnrollmentAdmin(u, c, s)

SpecContent == InitContent /\ [][NextContent]_vars

(***************************************************************************)
(* Courses and their modules.                                              *)
(***************************************************************************)
\* Course.save(): is_free follows the price.
CourseSave(row) == [row EXCEPT !.is_free = (row.price = 0)]

\* The course forms staff submit: free and open, priced, closed, inactive.
CourseForms == {<<0, TRUE, TRUE>>, <<10, TRUE, TRUE>>, <<0, FALSE, TRUE>>,
                <<0, TRUE, FALSE>>}

\* CourseAdmin: the 'Pricing & Enrollment' and 'Status' fieldsets.
\* enrollment_count is a readonly field.
CourseAdmin(c, price, open, active) ==
    /\ courses' = [courses EXCEPT ![c] =
                      CourseSave([@ EXCEPT !.price = price,
                                           !.is_open_for_enrollment = open,
                                           !.is_active = active])]
    /\ response' = AdminResponse
    /\ UNCHANGED <<documents, notes, blog_posts, enrollments, user_progress,
                   modules, requests, served>>
    /\ UNCHANGED <<coursework, family, site>>

ModulesOf(c) == {m \in modules : m.course = c}

\* Mutant: the count ignores is_published.
PublishedCount_all(c) == Cardinality(ModulesOf(c))

\* CourseModule.objects.filter(course=course, is_published=True).count()
PublishedCount(c) == Cardinality({m \in ModulesOf(c) : m.is_published})

\* The modules of a course in 'order' order, as a sequence.
RECURSIVE OrderBy(_)
OrderBy(ms) ==
    IF ms = {} THEN <<>>
    ELSE LET first == CHOOSE m \in ms :
                          \A o \in ms : m.order < o.order
                                        \/ (m.order = o.order /\ m.id <= o.id)
         IN <<first>> \o OrderBy(ms \ {first})

\* The body of the loop, from position idx on: each mod.save() is an
\* UPDATE of its own, which the unique pair (course, order) refuses when
\* another row of the course holds the order at that moment; the rows
\* saved before stay saved.
RECURSIVE ReorderLoop(_, _, _)
ReorderLoop(rows, sorted, idx) ==
    IF idx > Len(sorted) THEN [raised |-> FALSE, rows |-> rows]
    ELSE LET others == {m \in rows : m.id # sorted[idx].id} IN
         IF \E m \in others : m.order = idx
            THEN [raised |-> TRUE, rows |-> rows]
            ELSE ReorderLoop(others \cup {[sorted[idx] EXCEPT !.order = idx]},
                             sorted, idx + 1)

\* Mutant: the remaining modules are not renumbered.
Reorder_skipped(ms) == [raised |-> FALSE, rows |-> ms]

\* for idx, mod in enumerate(..., start=1): mod.order = idx; mod.save()
Reorder(ms) == ReorderLoop(ms, OrderBy(ms), 1)

\* The id of a new CourseModule row.  Ids are opaque keys: the model takes
\* the smallest id no row holds, which keeps the ids of a bounded table bounded.
NextModuleId ==
    CHOOSE i \in 1..(Cardinality(modules) + 1) :
        /\ \A m \in modules : m.id # i
        /\ \A j \in 1..(i - 1) : \E m \in modules : m.id = j

\* unique_together = ['course', 'order'] of CourseModule
CourseModuleUnique(c, order) == ~\E m \in ModulesOf(c) : m.order = order

\* The view, for a course whose table of modules the model caps at cap rows.
manage_modules(u, c, action, module_id, cap) ==
    /\ IF ~is_authenticated(u)
          THEN /\ response' = Response("instructor_manage_modules", u,
                                       "redirect_login")
               /\ UNCHANGED modules
       ELSE IF role(u) # "instructor"
          THEN /\ response' = Response("instructor_manage_modules", u,
                                       "redirect_dashboard")
               /\ UNCHANGED modules
       ELSE IF courses[c].instructor # u
          THEN /\ response' = Response("instructor_manage_modules", u, "404")
               /\ UNCHANGED modules
       ELSE IF action = "add_module"
          THEN LET order == Cardinality(ModulesOf(c)) + 1 IN
               /\ Cardinality(ModulesOf(c)) < cap
               /\ IF CourseModuleUnique(c, order)
                     THEN /\ modules' = modules \cup
                                {[id |-> NextModuleId, course |-> c,
                                  order |-> order, is_published |-> TRUE]}
                          /\ response' = Response("instructor_manage_modules",
                                                  u, "redirect_manage_modules")
                     ELSE /\ UNCHANGED modules
                          /\ response' = Response("instructor_manage_modules",
                                                  u, "500")
       ELSE IF action = "delete_module"
          THEN LET reordered ==
                       Reorder({m \in ModulesOf(c) : m.id # module_id}) IN
               /\ modules' = (modules \ ModulesOf(c)) \cup reordered.rows
               /\ response' = Response("instructor_manage_modules", u,
                                       IF reordered.raised THEN "500"
                                       ELSE "redirect_manage_modules")
       ELSE /\ response' = Response("instructor_manage_modules", u, "render")
            /\ UNCHANGED modules
    \* Lesson.module is on_delete=CASCADE: a deleted module takes its lessons
    /\ lessons' = {l \in lessons : \E m \in modules' : m.id = l.module}
    /\ UNCHANGED <<documents, notes, blog_posts, enrollments, user_progress,
                   courses, requests, served>>
    /\ UNCHANGED <<assignments, submissions, submit_requests, family, site>>

instructor_manage_modules(u, c, action, module_id) ==
    manage_modules(u, c, action, module_id, MaxModules)

\* CourseModuleAdmin: is_published is list_editable.
CourseModuleAdmin(m, published) ==
    /\ m \in modules
    /\ modules' = Replace(modules, m, [m EXCEPT !.is_published = published])
    /\ response' = AdminResponse
    /\ UNCHANGED <<documents, notes, blog_posts, enrollments, user_progress,
                   courses, requests, served>>
    /\ UNCHANGED <<coursework, family, site>>

(***************************************************************************)
(* enroll_course.  Django runs each query in its own transaction           *)
(* (autocommit), so requests of different workers interleave between the   *)
(* queries of the view: the view is modelled query by query.               *)
(***************************************************************************)
UserProgressRows(u, c) == {p \in user_progress : p.user = u /\ p.course = c}

\* unique_together = ['user', 'course'] of UserProgress
UserProgressUnique(u, c) == UserProgressRows(u, c) = {}

NewUserProgress(u, c, total, current) ==
    [id |-> NextId(user_progress), user |-> u, course |-> c,
     chapters_completed |-> 0, total_chapters |-> total,
     current_chapter |-> current, assignments_submitted |-> 0,
     completed_lessons |-> <<>>]

\* The view returns (or raises): the worker is free for the next request.
Finish(r, o) ==
    /\ requests' = [requests EXCEPT ![r] = IdleRequest]
    /\ response' = [Response("enroll_course", requests[r].user, o)
                       EXCEPT !.context = [enrollment |-> requests[r].enrollment]]

\* lines 933-944: the decorator, get_object_or_404 and the two early returns
enroll_course_check(u, c) ==
    IF ~is_authenticated(u) THEN "redirect_login"
    ELSE IF ~(courses[c].is_active /\ courses[c].is_open_for_enrollment)
        THEN "404"
    ELSE IF EnrollmentExists(u, c) THEN "already_enrolled"
    ELSE IF ~courses[c].is_free /\ courses[c].price > 0 THEN "payment_required"
    ELSE "continue"

enroll_course_begin(r, u, c) ==
    LET o == enroll_course_check(u, c)
        req == [IdleRequest EXCEPT !.user = u, !.course = c] IN
    /\ requests[r].pc = "idle"
    /\ IF o = "continue"
          THEN /\ requests' = [requests EXCEPT ![r] =
                                  [req EXCEPT !.pc = "create_enrollment"]]
               /\ UNCHANGED response
          ELSE /\ UNCHANGED requests
               /\ response' = Response("enroll_course", u, o)
    /\ UNCHANGED <<documents, notes, blog_posts, enrollments, user_progress,
                   modules, courses, served>>
    /\ UNCHANGED <<coursework, family, site>>

\* lines 946-951: Enrollment.objects.create(...); the unique pair makes the
\* INSERT fail with IntegrityError, which nothing catches (a 500 response)
enroll_course_create_enrollment(r) ==
    LET q == requests[r] IN
    /\ q.pc = "create_enrollment"
    /\ IF EnrollmentUnique(q.user, q.course)
          THEN /\ enrollments' = enrollments \cup
                     {NewEnrollment(q.user, q.course, "active")}
               /\ requests' = [requests EXCEPT
                                  ![r].pc = "count",
                                  ![r].enrollment = NextId(enrollments)]
               /\ UNCHANGED response
          ELSE /\ Finish(r, "500")
               /\ UNCHANGED enrollments
    /\ UNCHANGED <<documents, notes, blog_posts, user_progress, modules,
                   courses, served>>
    /\ UNCHANGED <<coursework, family, site>>

\* lines 953-954
enroll_course_count(r) ==
    LET q == requests[r] IN
    /\ q.pc = "count"
    /\ requests' = [requests EXCEPT ![r].pc = "create_progress",
                                    ![r].total_chapters = PublishedCount(q.course)]
    /\ UNCHANGED <<documents, notes, blog_posts, enrollments, user_progress,
                   modules, courses, response, served>>
    /\ UNCHANGED <<coursework, family, site>>

\* Mutant: the request runs in a transaction, and the IntegrityError undoes
\* the Enrollment it created.
after_progress_error_rolled_back(enrollment) ==
    {e \in enrollments : e.id # enrollment}

\* Autocommit: the INSERT of the Enrollment is already committed when the
\* INSERT of the UserProgress fails.
after_progress_error(enrollment) == enrollments

\* lines 956-972: UserProgress.objects.create(...) and the redirect; the
\* unique pair makes the INSERT fail with IntegrityError (a 500 response)
enroll_course_create_progress(r) ==
    LET q == requests[r] IN
    /\ q.pc = "create_progress"
    /\ IF UserProgressUnique(q.user, q.course)
          THEN /\ user_progress' = user_progress \cup
                     {NewUserProgress(q.user, q.course, q.total_chapters, 1)}
               /\ Finish(r, "enrolled")
               /\ UNCHANGED enrollments
          ELSE /\ Finish(r, "500")
               /\ enrollments' = after_progress_error(q.enrollment)
               /\ UNCHANGED user_progress
    /\ UNCHANGED <<documents, notes, blog_posts, modules,
                   courses, served>>
    /\ UNCHANGED <<coursework, family, site>>

(***************************************************************************)
(* Enrollment: users enroll through enroll_course, concurrently; the       *)
(* teacher manages the modules of a course and staff edit courses.         *)
(***************************************************************************)
Enrollers == {"student", "teacher", AnonymousUser}
ManagedCourses == {"c1"}
ModuleIds == 1..MaxModules

InitEnroll ==
    /\ InitCommon
    /\ blog_posts = {}
    /\ notes = {}
    /\ documents = {}

NextEnroll ==
    \/ \E r \in Slots, u \in Enrollers, c \in ManagedCourses :
          enroll_course_begin(r, u, c)
    \/ \E r \in Slots : enroll_course_create_enrollment(r)
    \/ \E r \in Slots : enroll_course_count(r)
    \/ \E r \in Slots : enroll_course_create_progress(r)
    \/ \E u \in {"teacher", "student"}, c \in ManagedCourses,
          action \in {"add_module", "delete_module", "get"},
          module_id \in ModuleIds :
             instructor_manage_modules(u, c, action, module_id)
    \/ \E m \in modules, published \in BOOLEAN : CourseModuleAdmin(m, published)
    \/ \E c \in ManagedCourses, f \in CourseForms :
          CourseAdmin(c, f[1], f[2], f[3])

SpecEnroll == InitEnroll /\ [][NextEnroll]_vars

\* Staff delete an Enrollment through the admin site; the UserProgress row
\* of the pair is a row of another table and stays.
EnrollmentAdmin_delete(u, c) ==
    /\ EnrollmentRows(u, c) # {}
    /\ NextId(enrollments) <= MaxEnrollments
    /\ \A r \in Slots : requests[r].enrollment \notin
                             {e.id : e \in EnrollmentRows(u, c)}
    /\ enrollments' = enrollments \ EnrollmentRows(u, c)
    /\ response' = AdminResponse
    /\ UNCHANGED <<documents, notes, blog_posts, user_progress, modules,
                   courses, requests, served>>
    /\ UNCHANGED <<coursework, family, site>>

\* Enrolling, leaving and enrolling again.
NextReenroll ==
    \/ \E r \in Slots, u \in Enrollers, c \in ManagedCourses :
          enroll_course_begin(r, u, c)
    \/ \E r \in Slots : enroll_course_create_enrollment(r)
    \/ \E r \in Slots : enroll_course_count(r)
    \/ \E r \in Slots : enroll_course_create_progress(r)
    \/ \E u \in Enrollers \ {AnonymousUser}, c \in ManagedCourses :
          EnrollmentAdmin_delete(u, c)

SpecReenroll == InitEnroll /\ [][NextReenroll]_vars

(***************************************************************************)
(* UserProgress.calculate_progress and the dashboard that shows it.        *)
(* Python's true division gives a float; the model computes the quotient   *)
(* exactly, as a fraction in lowest terms.  Division by zero raises.       *)
(***************************************************************************)
Abs(n) == IF n < 0 THEN 0 - n ELSE n

RECURSIVE Gcd(_, _)
Gcd(a, b) == IF b = 0 THEN a ELSE Gcd(b, a % b)

Fraction(n, d) ==
    LET g == Gcd(Abs(n), Abs(d))
        sign == IF d < 0 THEN 0 - 1 ELSE 1 IN
    [num |-> sign * (n \div g), den |-> sign * (d \div g)]

Number(n) == [num |-> n, den |-> 1]
ZeroDivisionError == [num |-> 0, den |-> 0]
Raised(x) == x.den = 0

\* a / b
TrueDiv(a, b) == IF b = 0 THEN ZeroDivisionError ELSE Fraction(a, b)

\* x * n; an exception raised by the evaluation of x propagates
Times(x, n) == IF Raised(x) THEN x ELSE Fraction(x.num * n, x.den)

\* Mutant: no zero check before the division.
calculate_progress_unguarded(p) ==
    Times(TrueDiv(p.chapters_completed, p.total_chapters), 100)

calculate_progress(p) ==
    IF p.total_chapters = 0 THEN Number(0)
    ELSE Times(TrueDiv(p.chapters_completed, p.total_chapters), 100)

\* UserProgressAdmin: chapters_completed and total_chapters are editable
\* IntegerFields without validators.
UserProgressAdmin(u, c, completed, total) ==
    /\ UserProgressRows(u, c) # {}
    /\ LET p == TheRow(UserProgressRows(u, c)) IN
       user_progress' = Replace(user_progress, p,
                                [p EXCEPT !.chapters_completed = completed,
                                          !.total_chapters = total])
    /\ response' = AdminResponse
    /\ UNCHANGED <<documents, notes, blog_posts, enrollments, modules,
                   courses, requests, served>>
    /\ UNCHANGED <<coursework, family, site>>

\* Enrollment.objects.filter(user=user, status='active'), as a sequence of
\* courses in primary-key order.
RECURSIVE CoursesById(_)
CoursesById(es) ==
    IF es = {} THEN <<>>
    ELSE LET e == CHOOSE x \in es : \A y \in es : x.id <= y.id
         IN <<e.course>> \o CoursesById(es \ {e})

ActiveCourses(u) ==
    CoursesById({e \in enrollments : e.user = u /\ e.status = "active"})

\* The loop of dashboard over the first n courses: the UserProgress table it
\* leaves (a missing row is created with the published-module count).
RECURSIVE DashboardRows(_, _, _)
DashboardRows(u, cs, n) ==
    IF n = 0 THEN user_progress
    ELSE LET rows == DashboardRows(u, cs, n - 1)
             c == cs[n] IN
         IF \E p \in rows : p.user = u /\ p.course = c
            THEN rows
            ELSE rows \cup {[NewUserProgress(u, c, PublishedCount(c), 1)
                                EXCEPT !.id = NextId(rows)]}

\* The 'percentage' entry of course_progress for the n-th course.
DashboardPercentage(u, cs, n) ==
    LET c == cs[n] IN
    IF UserProgressRows(u, c) # {}
       THEN calculate_progress(TheRow(UserProgressRows(u, c)))
       ELSE Number(0)

dashboard(u) ==
    LET cs == ActiveCourses(u)
        pct == [n \in 1..Len(cs) |-> DashboardPercentage(u, cs, n)] IN
    /\ IF ~is_authenticated(u)
          THEN /\ response' = [Response("dashboard", u, "redirect_login")
                                  EXCEPT !.context = <<>>]
               /\ UNCHANGED user_progress
       ELSE IF \E n \in 1..Len(cs) : Raised(pct[n])
          THEN \* the exception leaves the rows created before it
               LET n == CHOOSE i \in 1..Len(cs) :
                           Raised(pct[i]) /\ \A j \in 1..(i - 1) : ~Raised(pct[j])
               IN /\ response' = [Response("dashboard", u, "500")
                                     EXCEPT !.context = <<>>]
                  /\ user_progress' = DashboardRows(u, cs, n - 1)
       ELSE /\ response' = [Response("dashboard", u, "render")
                               EXCEPT !.context =
                                  [n \in 1..Len(cs) |->
                                      [course |-> cs[n], percentage |-> pct[n]]]]
            /\ user_progress' = DashboardRows(u, cs, Len(cs))
    /\ UNCHANGED <<documents, notes, blog_posts, enrollments, modules,
                   courses, requests, served>>
    /\ UNCHANGED <<coursework, family, site>>

(***************************************************************************)
(* Progress: a student, given an Enrollment by staff, opens the dashboard; *)
(* staff edit the chapter counters of the UserProgress row.                *)
(***************************************************************************)
ChapterValues == -1..MaxChapters

InitProgress == InitEnroll

NextProgress ==
    \/ \E u \in Students \cup {AnonymousUser} : dashboard(u)
    \/ \E u \in Students, c \in ManagedCourses, completed \in ChapterValues,
          total \in ChapterValues : UserProgressAdmin(u, c, completed, total)
    \/ \E u \in Students, c \in ManagedCourses, st \in STATUS_CHOICES :
          EnrollmentAdmin(u, c, st)
    \/ \E u \in {"teacher"}, c \in ManagedCourses,
          action \in {"add_module", "delete_module"}, module_id \in ModuleIds :
             instructor_manage_modules(u, c, action, module_id)

SpecProgress == InitProgress /\ [][NextProgress]_vars

(***************************************************************************)
(* Course content for enrolled users: modules, lessons, assignments and    *)
(* submissions.                                                            *)
(***************************************************************************)
AssignmentIds == {"a1", "a2"}
Titles == {"t0", "t1"}

\* slugify(f"{course_code}-{title}")
slugify(course_code, title) == course_code \o "-" \o title

LessonSlugs == {slugify("c1", "t0")}

\* A nullable FloatField.
GradeNull == [null |-> TRUE, value |-> 0]
Grade(n) == [null |-> FALSE, value |-> n]
TextContents == {"draft", "final"}

InitModule == [id |-> 1, course |-> "c1", order |-> 1, is_published |-> TRUE]
InitLesson == [id |-> 1, module |-> 1, slug |-> slugify("c1", "t0"), order |-> 1,
               title |-> "t0", is_published |-> TRUE,
               requires_completion |-> TRUE]
InitAssignment == [assignment_id |-> "a1", course |-> "c1", title |-> "t0",
                   max_points |-> 100, created_by |-> "teacher"]

ByAssignmentId(a) == {x \in assignments : x.assignment_id = a}
SubmissionRows(u, a) == {x \in submissions : x.user = u /\ x.assignment = a}

\* Mutant: the table has no unique constraint.
SubmissionUnique_unconstrained(u, a) == TRUE

\* unique_together = ['user', 'assignment'] of Submission
SubmissionUnique(u, a) == SubmissionRows(u, a) = {}

NewSubmission(u, a, text) ==
    [id |-> NextId(submissions), user |-> u, assignment |-> a,
     text_content |-> text, grade |-> GradeNull, feedback |-> None,
     is_graded |-> FALSE, graded_at |-> None, graded_by |-> None]

\* UserProgress.objects.get_or_create(user=u, course=c, defaults=...)
get_or_create_progress(u, c, total, current) ==
    IF UserProgressRows(u, c) # {} THEN TheRow(UserProgressRows(u, c))
    ELSE NewUserProgress(u, c, total, current)

\* The course a request is about goes into the response.
CourseworkResponse(v, u, o, c) ==
    [Response(v, u, o) EXCEPT !.context = [course |-> c]]

\* assignment.course, None when no assignment has the id
AssignmentCourse(a) ==
    IF ByAssignmentId(a) = {} THEN None ELSE TheRow(ByAssignmentId(a)).course

course_module_detail(u, c, module_id) ==
    LET found == {m \in modules : m.course = c /\ m.id = module_id
                                     /\ m.is_published}
        progress == get_or_create_progress(u, c, PublishedCount(c), module_id)
    IN
    /\ IF ~is_authenticated(u)
          THEN /\ response' = CourseworkResponse("course_module_detail", u, "redirect_login", c)
               /\ UNCHANGED user_progress
       ELSE IF ~EnrollmentExists(u, c) \/ found = {}
          THEN /\ response' = CourseworkResponse("course_module_detail", u, "redirect_course_detail", c)
               /\ UNCHANGED user_progress
       ELSE /\ response' = CourseworkResponse("course_module_detail", u, "render", c)
            /\ user_progress' =
                  (user_progress \ UserProgressRows(u, c)) \cup
                     {[progress EXCEPT !.current_chapter = module_id]}
    /\ UNCHANGED <<documents, notes, blog_posts, enrollments, modules,
                   courses, requests, served>>
    /\ UNCHANGED <<coursework, family, site>>

LessonsOf(c, slug) ==
    {l \in lessons : l.slug = slug
                       /\ \E m \in modules : m.id = l.module /\ m.course = c}

Contains(seq, x) == \E i \in 1..Len(seq) : seq[i] = x

lesson_detail(u, c, lesson_slug) ==
    /\ IF ~is_authenticated(u)
          THEN /\ response' = CourseworkResponse("lesson_detail", u, "redirect_login", c)
               /\ UNCHANGED user_progress
       ELSE IF LessonsOf(c, lesson_slug) = {}
          THEN /\ response' = CourseworkResponse("lesson_detail", u, "404", c)
               /\ UNCHANGED user_progress
       ELSE IF ~EnrollmentExists(u, c)
          THEN /\ response' = CourseworkResponse("lesson_detail", u, "redirect_course_detail", c)
               /\ UNCHANGED user_progress
       ELSE LET lesson == TheRow(LessonsOf(c, lesson_slug)) IN
            IF ~lesson.requires_completion
               THEN /\ response' = CourseworkResponse("lesson_detail", u, "render", c)
                    /\ UNCHANGED user_progress
            ELSE IF UserProgressRows(u, c) = {}
               THEN \* UserProgress.objects.get raises DoesNotExist
                    /\ response' = CourseworkResponse("lesson_detail", u, "500", c)
                    /\ UNCHANGED user_progress
            ELSE LET progress == TheRow(UserProgressRows(u, c)) IN
                 /\ response' = CourseworkResponse("lesson_detail", u, "render", c)
                 /\ user_progress' =
                       IF Contains(progress.completed_lessons, lesson.id)
                          THEN user_progress
                          ELSE Replace(user_progress, progress,
                                  [progress EXCEPT !.completed_lessons =
                                      Append(@, lesson.id)])
    /\ UNCHANGED <<documents, notes, blog_posts, enrollments, modules,
                   courses, requests, served>>
    /\ UNCHANGED <<coursework, family, site>>

assignment_detail(u, a) ==
    /\ response' = CourseworkResponse("assignment_detail", u,
          IF ~is_authenticated(u) THEN "redirect_login"
          ELSE IF ByAssignmentId(a) = {} THEN "404"
          ELSE IF ~EnrollmentExists(u, TheRow(ByAssignmentId(a)).course)
             THEN "redirect_course_detail"
          ELSE "render",
          AssignmentCourse(a))
    /\ UNCHANGED <<documents, notes, blog_posts, enrollments, user_progress,
                   modules, courses, requests, served>>
    /\ UNCHANGED <<coursework, family, site>>

(***************************************************************************)
(* submit_assignment.  The view reads the existing Submission and later    *)
(* saves the form: requests of different workers interleave between the    *)
(* two.                                                                    *)
(***************************************************************************)
\* The POSTs of u that are counted in assignments_submitted or will be.
SubmitsOf(u) ==
    Cardinality({r \in Slots : submit_requests[r].user = u})

SubmittedCount(u) ==
    LET rows == {p \in user_progress : p.user = u} IN
    IF rows = {} THEN 0
    ELSE (CHOOSE p \in rows : \A q \in rows :
             q.assignments_submitted <= p.assignments_submitted
         ).assignments_submitted

FinishSubmit(r, o) ==
    /\ submit_requests' = [submit_requests EXCEPT ![r] = IdleSubmit]
    /\ response' = CourseworkResponse("submit_assignment",
                                      submit_requests[r].user, o,
                                      AssignmentCourse(submit_requests[r].assignment))

\* Up to form.is_valid(): both form fields are optional, the form of a POST
\* is always valid.
submit_assignment_begin(r, u, a, method, text) ==
    LET found == ByAssignmentId(a)
        existing == SubmissionRows(u, a)
        o == IF ~is_authenticated(u) THEN "redirect_login"
             ELSE IF found = {} THEN "404"
             ELSE IF ~EnrollmentExists(u, TheRow(found).course)
                THEN "redirect_course_detail"
             ELSE IF method = "POST" THEN "continue"
             ELSE "render"
    IN
    /\ submit_requests[r].pc = "idle"
    /\ IF o = "continue"
          THEN /\ SubmittedCount(u) + SubmitsOf(u) < MaxCount
               /\ submit_requests' = [submit_requests EXCEPT ![r] =
                     [pc |-> "save", user |-> u, assignment |-> a,
                      existing_submission |->
                         IF existing = {} THEN 0 ELSE TheRow(existing).id,
                      text_content |-> text]]
               /\ UNCHANGED response
          ELSE /\ response' = CourseworkResponse("submit_assignment", u, o,
                                                   AssignmentCourse(a))
               /\ UNCHANGED submit_requests
    /\ UNCHANGED <<documents, notes, blog_posts, enrollments, user_progress,
                   modules, courses, requests, served>>
    /\ UNCHANGED <<lessons, assignments, submissions, family, site>>

\* submission.save(), then the UserProgress counter.
submit_assignment_save(r) ==
    LET q == submit_requests[r]
        c == TheRow(ByAssignmentId(q.assignment)).course
        old == {x \in submissions : x.id = q.existing_submission}
        progress == get_or_create_progress(q.user, c, 0, 1)
        counted == /\ user_progress' =
                         (user_progress \ UserProgressRows(q.user, c)) \cup
                            {[progress EXCEPT !.assignments_submitted = @ + 1]}
                   /\ FinishSubmit(r, "redirect_assignment_detail")
    IN
    /\ q.pc = "save"
    /\ IF old # {}
          THEN \* the form was bound to the existing row: UPDATE
               /\ submissions' = Replace(submissions, TheRow(old),
                     [TheRow(old) EXCEPT !.text_content = q.text_content,
                                         !.user = q.user,
                                         !.assignment = q.assignment])
               /\ counted
       ELSE IF SubmissionUnique(q.user, q.assignment)
          THEN /\ submissions' = submissions \cup
                     {NewSubmission(q.user, q.assignment, q.text_content)}
               /\ counted
       ELSE \* INSERT refused by unique_together: IntegrityError
            /\ FinishSubmit(r, "500")
            /\ UNCHANGED <<submissions, user_progress>>
    /\ UNCHANGED <<documents, notes, blog_posts, enrollments, modules,
                   courses, requests, served>>
    /\ UNCHANGED <<lessons, assignments, family, site>>

(***************************************************************************)
(* Coursework: course c1 has a module with a lesson and assignment a1;     *)
(* staff enter the student into c1 and the pupil into c2.                  *)
(***************************************************************************)
Learners == {"student", "pupil", AnonymousUser}

\* What staff enter: the student into c1, the pupil into c2.
Enrolments == {<<"student", "c1", "active">>, <<"student", "c1", "dropped">>,
               <<"pupil", "c2", "active">>}

InitCoursework ==
    /\ blog_posts = {} /\ notes = {} /\ documents = {}
    /\ enrollments = {}
    /\ user_progress = {}
    /\ courses = [c \in CourseIds |-> InitCourse]
    /\ \E published \in BOOLEAN, requires \in BOOLEAN :
          /\ modules = {[InitModule EXCEPT !.is_published = published]}
          /\ lessons = {[InitLesson EXCEPT !.requires_completion = requires]}
    /\ assignments = {InitAssignment}
    /\ submissions = {}
    /\ requests = [r \in Slots |-> IdleRequest]
    /\ submit_requests = [r \in Slots |-> IdleSubmit]
    /\ response = NoResponse
    /\ served = 0
    /\ UnusedFamily /\ UnusedSite

NextCoursework ==
    \/ \E u \in Learners, c \in ManagedCourses, module_id \in ModuleIds :
          course_module_detail(u, c, module_id)
    \/ \E u \in Learners, c \in ManagedCourses, slug \in LessonSlugs :
          lesson_detail(u, c, slug)
    \/ \E u \in Learners, a \in AssignmentIds : assignment_detail(u, a)
    \/ \E r \in Slots, u \in Learners, a \in AssignmentIds,
          method \in {"GET", "POST"}, text \in TextContents :
             submit_assignment_begin(r, u, a, method, text)
    \/ \E r \in Slots : submit_assignment_save(r)
    \/ \E e \in Enrolments : EnrollmentAdmin(e[1], e[2], e[3])

SpecCoursework == InitCoursework /\ [][NextCoursework]_vars

(***************************************************************************)
(* Instructor management views.                                            *)
(***************************************************************************)
\* request.POST.get('price', 0) is a string when the field is posted, and
\* Course.save() compares it with 0.00: only the default 0 counts as free.
PostedPrices == {[posted |-> TRUE, value |-> 10]}

instructor_course_edit(u, c, method, price) ==
    LET o == IF ~is_authenticated(u) THEN "redirect_login"
             ELSE IF role(u) # "instructor" THEN "redirect_dashboard"
             ELSE IF courses[c].instructor # u THEN "404"
             ELSE IF method = "POST" THEN "redirect_course_edit"
             ELSE "render"
    IN
    /\ response' = Response("instructor_course_edit", u, o)
    /\ courses' = IF o = "redirect_course_edit"
                     THEN [courses EXCEPT ![c] =
                             [@ EXCEPT !.price = price.value,
                                       !.is_free = ~price.posted]]
                     ELSE courses
    /\ UNCHANGED <<documents, notes, blog_posts, enrollments, user_progress,
                   modules, requests, served>>
    /\ UNCHANGED <<coursework, family, site>>

ModuleById(module_id) == {m \in modules : m.id = module_id}
LessonsOfModule(module_id) == {l \in lessons : l.module = module_id}

\* unique_together = ['module', 'order'] of Lesson
LessonUnique(module_id, order) ==
    ~\E l \in LessonsOfModule(module_id) : l.order = order

\* Mutant: the views check the role, not the course's instructor.
is_course_instructor_by_role(u, c) == role(u) = "instructor"

\* module.course.instructor != request.user (and the same test on a lesson's
\* and an assignment's course)
is_course_instructor(u, c) == courses[c].instructor = u

instructor_lesson_create(u, module_id, method, title) ==
    LET found == ModuleById(module_id)
        c == IF found = {} THEN None ELSE TheRow(found).course
        order == Cardinality(LessonsOfModule(module_id)) + 1
        o == IF ~is_authenticated(u) THEN "redirect_login"
             ELSE IF found = {} THEN "404"
             ELSE IF ~is_course_instructor(u, c)
                THEN "redirect_instructor_dashboard"
             ELSE IF method # "POST" THEN "render"
             ELSE IF ~LessonUnique(module_id, order) THEN "500"
             ELSE "redirect_manage_modules"
    IN
    /\ o = "redirect_manage_modules"
          => Cardinality(LessonsOfModule(module_id)) < MaxLessons
    /\ response' = Response("instructor_lesson_create", u, o)
    /\ lessons' = IF o = "redirect_manage_modules"
                     THEN lessons \cup
                            {[id |-> NextId(lessons), module |-> module_id,
                              slug |-> slugify(c, title), order |-> order,
                              title |-> title, is_published |-> TRUE,
                              requires_completion |-> TRUE]}
                     ELSE lessons
    /\ UNCHANGED <<documents, notes, blog_posts, enrollments, user_progress,
                   modules, courses, requests, served>>
    /\ UNCHANGED <<assignments, submissions, submit_requests, family, site>>

LessonCourse(l) == TheRow(ModuleById(l.module)).course

instructor_lesson_edit(u, slug, method, title) ==
    LET found == {l \in lessons : l.slug = slug}
        c == IF Cardinality(found) = 1 THEN LessonCourse(TheRow(found))
             ELSE None
        o == IF ~is_authenticated(u) THEN "redirect_login"
             ELSE IF found = {} THEN "404"
             \* Lesson.slug is not unique: get() raises MultipleObjectsReturned
             ELSE IF Cardinality(found) > 1 THEN "500"
             ELSE IF ~is_course_instructor(u, c)
                THEN "redirect_instructor_dashboard"
             ELSE IF method # "POST" THEN "render"
             ELSE "redirect_manage_modules"
    IN
    /\ response' = Response("instructor_lesson_edit", u, o)
    /\ lessons' = IF o = "redirect_manage_modules"
                     THEN Replace(lessons, TheRow(found),
                                  [TheRow(found) EXCEPT !.title = title])
                     ELSE lessons
    /\ UNCHANGED <<documents, notes, blog_posts, enrollments, user_progress,
                   modules, courses, requests, served>>
    /\ UNCHANGED <<assignments, submissions, submit_requests, family, site>>

PostedPoints == {50, 100}

\* f"{course.course_code}-{uuid.uuid4().hex[:6].upper()}": any id; an id
\* that is taken violates unique=True of Assignment.assignment_id.
instructor_assignment_create(u, c, method, title, new_id) ==
    LET o == IF ~is_authenticated(u) THEN "redirect_login"
             ELSE IF role(u) # "instructor" THEN "redirect_dashboard"
             ELSE IF method # "POST" THEN "render"
             ELSE IF courses[c].instructor # u THEN "404"
             ELSE IF ByAssignmentId(new_id) # {} THEN "500"
             ELSE "redirect_assignment_list"
    IN
    /\ response' = Response("instructor_assignment_create", u, o)
    /\ assignments' = IF o = "redirect_assignment_list"
                         THEN assignments \cup
                                {[assignment_id |-> new_id, course |-> c,
                                  title |-> title, max_points |-> 100,
                                  created_by |-> u]}
                         ELSE assignments
    /\ UNCHANGED <<documents, notes, blog_posts, enrollments, user_progress,
                   modules, courses, requests, served>>
    /\ UNCHANGED <<lessons, submissions, submit_requests, family, site>>

instructor_assignment_edit(u, a, method, title, max_points) ==
    LET found == ByAssignmentId(a)
        c == IF found = {} THEN None ELSE TheRow(found).course
        o == IF ~is_authenticated(u) THEN "redirect_login"
             ELSE IF found = {} THEN "404"
             ELSE IF ~is_course_instructor(u, c)
                THEN "redirect_instructor_dashboard"
             ELSE IF method # "POST" THEN "render"
             ELSE "redirect_assignment_list"
    IN
    /\ response' = Response("instructor_assignment_edit", u, o)
    /\ assignments' = IF o = "redirect_assignment_list"
                         THEN Replace(assignments, TheRow(found),
                                 [TheRow(found) EXCEPT !.title = title,
                                                       !.max_points = max_points])
                         ELSE assignments
    /\ UNCHANGED <<documents, notes, blog_posts, enrollments, user_progress,
                   modules, courses, requests, served>>
    /\ UNCHANGED <<lessons, submissions, submit_requests, family, site>>

instructor_submissions_list(u, a) ==
    LET found == ByAssignmentId(a)
        c == IF found = {} THEN None ELSE TheRow(found).course
        o == IF ~is_authenticated(u) THEN "redirect_login"
             ELSE IF found = {} THEN "404"
             ELSE IF ~is_course_instructor(u, c)
                THEN "redirect_instructor_dashboard"
             ELSE "render"
    IN
    /\ response' = Response("instructor_submissions_list", u, o)
    /\ UNCHANGED <<documents, notes, blog_posts, enrollments, user_progress,
                   modules, courses, requests, served>>
    /\ UNCHANGED <<coursework, family, site>>

\* request.POST.get('grade'): absent, a number, or text that is no number.
PostedGrades ==
    {[kind |-> "absent", value |-> 0], [kind |-> "text", value |-> 0]}
       \cup {[kind |-> "number", value |-> n] : n \in {100, 101}}
Feedbacks == {"good"}

\* timezone.now()
now == "now"

\* Mutant: a grade above max_points is refused like text.
grade_accepted_checked(grade, assignment) ==
    grade.kind # "text"
       /\ (grade.kind = "number" => grade.value <= assignment.max_points)

\* FloatField.get_prep_value: float(value) raises ValueError on text; the
\* view compares the grade with nothing.
grade_accepted(grade, assignment) == grade.kind # "text"

\* Mutant: the view checks the role, not the course's instructor.
may_grade_any_instructor(u, c) == role(u) = "instructor"

may_grade(u, c) == courses[c].instructor = u

instructor_grade_submission(u, submission_id, method, grade, feedback) ==
    LET found == {x \in submissions : x.id = submission_id}
        assignment == TheRow(ByAssignmentId(TheRow(found).assignment))
        c == IF found = {} THEN None ELSE assignment.course
        o == IF ~is_authenticated(u) THEN "redirect_login"
             ELSE IF found = {} THEN "404"
             ELSE IF ~may_grade(u, c) THEN "redirect_instructor_dashboard"
             ELSE IF method # "POST" THEN "render"
             ELSE IF ~grade_accepted(grade, assignment) THEN "500"
             ELSE "redirect_submissions_list"
    IN
    /\ response' = [Response("instructor_grade_submission", u, o)
                       EXCEPT !.context = [submission_id |-> submission_id,
                                          method |-> method,
                                          grade |-> grade,
                                          feedback |-> feedback]]
    /\ submissions' =
          IF o = "redirect_submissions_list"
             THEN Replace(submissions, TheRow(found),
                     [TheRow(found) EXCEPT
                         !.grade = IF grade.kind = "absent" THEN GradeNull
                                   ELSE Grade(grade.value),
                         !.feedback = feedback,
                         !.is_graded = TRUE,
                         !.graded_at = now,
                         !.graded_by = u])
             ELSE submissions
    /\ UNCHANGED <<documents, notes, blog_posts, enrollments, user_progress,
                   modules, courses, requests, served>>
    /\ UNCHANGED <<lessons, assignments, submit_requests, family, site>>

(***************************************************************************)
(* Instructors: the teacher instructs c1 and the lecturer c2; the student  *)
(* is enrolled in c1 and has submitted assignment a1.                      *)
(***************************************************************************)
Staffers == {"teacher", "lecturer", "student", AnonymousUser}

\* The rows the student's enrolment and first submission left.
InitEnrollment == [id |-> 1, user |-> "student", course |-> "c1",
                   status |-> "active"]
InitUserProgress == [id |-> 1, user |-> "student", course |-> "c1",
                     chapters_completed |-> 0, total_chapters |-> 0,
                     current_chapter |-> 1, assignments_submitted |-> 1,
                     completed_lessons |-> <<>>]
InitSubmission == [id |-> 1, user |-> "student", assignment |-> "a1",
                   text_content |-> "draft", grade |-> GradeNull,
                   feedback |-> None, is_graded |-> FALSE,
                   graded_at |-> None, graded_by |-> None]
InstructorOf(c) == IF c = "c1" THEN "teacher" ELSE "lecturer"
Methods == {"GET", "POST"}

InitInstructor ==
    /\ blog_posts = {} /\ notes = {} /\ documents = {}
    /\ courses = [c \in CourseIds |->
                     [InitCourse EXCEPT !.instructor = InstructorOf(c)]]
    /\ enrollments = {InitEnrollment}
    /\ user_progress = {InitUserProgress}
    /\ modules = {}
    /\ lessons = {}
    /\ assignments = {InitAssignment}
    /\ submissions = {InitSubmission}
    /\ requests = [r \in Slots |-> IdleRequest]
    /\ submit_requests = [r \in Slots |-> IdleSubmit]
    /\ response = NoResponse
    /\ served = 0
    /\ UnusedFamily /\ UnusedSite

NextInstructor ==
    \/ \E u \in Staffers, c \in CourseIds, price \in PostedPrices :
          instructor_course_edit(u, c, "POST", price)
    \/ \E u \in Staffers, c \in CourseIds,
          action \in {"add_module", "delete_module"}, module_id \in ModuleIds :
             instructor_manage_modules(u, c, action, module_id)
    \/ \E u \in Staffers, module_id \in ModuleIds :
          instructor_lesson_create(u, module_id, "POST", "t0")
    \/ \E u \in Staffers, c \in CourseIds :
          instructor_lesson_edit(u, slugify(c, "t0"), "POST", "t1")
    \/ \E u \in Staffers, c \in CourseIds :
          instructor_assignment_create(u, c, "POST", "t0", "a2")
    \/ \E u \in Staffers, a \in AssignmentIds :
          instructor_assignment_edit(u, a, "POST", "t1", 100)
    \/ \E u \in Staffers, a \in AssignmentIds :
          instructor_submissions_list(u, a)
    \/ \E u \in Staffers :
          instructor_grade_submission(u, 1, "POST",
                                      [kind |-> "number", value |-> 100], "good")

SpecInstructor == InitInstructor /\ [][NextInstructor]_vars

(***************************************************************************)
(* Grading: the teacher edits assignment a1 and the submission the student *)
(* made is graded, or a grading is attempted by somebody else.             *)
(***************************************************************************)
NextGrading ==
    \/ \E u \in Staffers, submission_id \in 1..2, method \in Methods,
          grade \in PostedGrades, feedback \in Feedbacks :
             instructor_grade_submission(u, submission_id, method, grade,
                                         feedback)
    \/ \E u \in Staffers, a \in AssignmentIds, method \in Methods,
          title \in Titles, max_points \in PostedPoints :
             instructor_assignment_edit(u, a, method, title, max_points)
    \/ \E u \in Staffers, a \in AssignmentIds :
          instructor_submissions_list(u, a)

SpecGrading == InitInstructor /\ [][NextGrading]_vars

(***************************************************************************)
(* Parents.  parent_connect validates the form and then saves it: requests *)
(* of different workers interleave between the two.                        *)
(***************************************************************************)
\* CustomUser.email is unique: an address names at most one account.  The
\* model writes an account's address as the account's name.
StudentEmails == {"student", "pupil", "teacher", "nobody"}
Accounts == {"parent", "student", "pupil", "teacher"}

\* CustomUser.objects.get(email=student_email, role='student')
StudentByEmail(email) == {a \in Accounts : a = email /\ role(a) = "student"}

ConnectionRows(parent, student) ==
    {x \in parent_connections : x.parent = parent /\ x.student = student}

\* Mutant: the table has no unique constraint.
ConnectionUnique_unconstrained(parent, student) == TRUE

\* unique_together = ['parent', 'student'] of ParentConnection
ConnectionUnique(parent, student) == ConnectionRows(parent, student) = {}

\* The id of a new row: the smallest id no row holds (ids are opaque keys).
FreeId(rows) ==
    CHOOSE i \in 1..(Cardinality(rows) + 1) :
        /\ \A x \in rows : x.id # i
        /\ \A j \in 1..(i - 1) : \E x \in rows : x.id = j

\* Mutant: a new connection is verified from the start.
NewConnection_verified(parent, student) ==
    [id |-> FreeId(parent_connections), parent |-> parent,
     student |-> student, is_verified |-> TRUE]

NewConnection(parent, student) ==
    [id |-> FreeId(parent_connections), parent |-> parent,
     student |-> student, is_verified |-> FALSE]

\* ParentConnectionForm.clean_student_email
clean_student_email(parent, email) ==
    /\ StudentByEmail(email) # {}
    /\ ConnectionRows(parent, TheRow(StudentByEmail(email))) = {}

FinishConnect(r, o) ==
    /\ connect_requests' = [connect_requests EXCEPT ![r] = IdleConnect]
    /\ response' = Response("parent_connect", connect_requests[r].user, o)

\* Up to form.is_valid()
parent_connect_begin(r, u, method, email) ==
    LET o == IF ~is_authenticated(u) THEN "redirect_login"
             ELSE IF role(u) # "parent" THEN "redirect_dashboard"
             ELSE IF method # "POST" THEN "render"
             ELSE IF ~clean_student_email(u, email) THEN "render"
             ELSE "continue"
    IN
    /\ connect_requests[r].pc = "idle"
    /\ IF o = "continue"
          THEN /\ connect_requests' = [connect_requests EXCEPT ![r] =
                     [pc |-> "save", user |-> u, student_email |-> email]]
               /\ UNCHANGED response
          ELSE /\ response' = Response("parent_connect", u, o)
               /\ UNCHANGED connect_requests
    /\ UNCHANGED <<documents, notes, blog_posts, enrollments, user_progress,
                   modules, courses, requests, served>>
    /\ UNCHANGED <<coursework, parent_connections, site>>

\* ParentConnectionForm.save
parent_connect_save(r) ==
    LET q == connect_requests[r]
        \* CustomUser.objects.get(email=...): the account of that address
        student == q.student_email
    IN
    /\ q.pc = "save"
    /\ IF ConnectionUnique(q.user, student)
          THEN /\ parent_connections' =
                     parent_connections \cup {NewConnection(q.user, student)}
               /\ FinishConnect(r, "redirect_parent_dashboard")
          ELSE \* IntegrityError
               /\ FinishConnect(r, "500")
               /\ UNCHANGED parent_connections
    /\ UNCHANGED <<documents, notes, blog_posts, enrollments, user_progress,
                   modules, courses, requests, served>>
    /\ UNCHANGED <<coursework, site>>

Connectors == {"parent", "student", AnonymousUser}
ConnectionIds == 1..2

\* Mutant: a requester who is no parent is told the connection does not exist.
cancel_denied_not_found == "404"

\* JsonResponse({'error': 'Access denied'}, status=403)
cancel_denied == "403"

\* @require_POST is the outer decorator, @login_required the inner one.
parent_cancel_connection(u, method, connection_id) ==
    LET found == {x \in parent_connections :
                     x.id = connection_id /\ x.parent = u /\ ~x.is_verified}
        o == IF method # "POST" THEN "405"
             ELSE IF ~is_authenticated(u) THEN "redirect_login"
             ELSE IF role(u) # "parent" THEN cancel_denied
             ELSE IF found = {} THEN "404"
             ELSE "redirect_parent_dashboard"
    IN
    /\ response' = Response("parent_cancel_connection", u, o)
    /\ parent_connections' = IF o = "redirect_parent_dashboard"
                                THEN parent_connections \ found
                                ELSE parent_connections
    /\ UNCHANGED <<documents, notes, blog_posts, enrollments, user_progress,
                   modules, courses, requests, served>>
    /\ UNCHANGED <<coursework, connect_requests, site>>

\* ParentConnectionAdmin: is_verified is list_editable.
ParentConnectionAdmin(connection_id, verified) ==
    /\ \E x \in parent_connections : x.id = connection_id
    /\ parent_connections' =
          {IF x.id = connection_id THEN [x EXCEPT !.is_verified = verified]
                                   ELSE x : x \in parent_connections}
    /\ response' = AdminResponse
    /\ UNCHANGED <<documents, notes, blog_posts, enrollments, user_progress,
                   modules, courses, requests, served>>
    /\ UNCHANGED <<coursework, connect_requests, site>>


InitParent ==
    /\ InitCommon
    /\ blog_posts = {} /\ notes = {} /\ documents = {}

NextParent ==
    \/ \E r \in Slots, u \in Connectors, method \in Methods,
          email \in StudentEmails : parent_connect_begin(r, u, method, email)
    \/ \E r \in Slots : parent_connect_save(r)
    \/ \E u \in Connectors, method \in Methods, id \in ConnectionIds :
          parent_cancel_connection(u, method, id)
    \/ \E id \in ConnectionIds, verified \in BOOLEAN :
          ParentConnectionAdmin(id, verified)

SpecParent == InitParent /\ [][NextParent]_vars

(***************************************************************************)
(* Refusals: a store with one content row of any kind, published or not,   *)
(* of any access level, linked to course c1 or to none; the student is     *)
(* enrolled in c1; the parent has asked to be connected to the student.    *)
(***************************************************************************)
Visitors == {"student", "staff", "parent", AnonymousUser}
InitConnection == [id |-> 1, parent |-> "parent", student |-> "student",
                   is_verified |-> FALSE]

InitDenial ==
    /\ \E t \in {"blog", "note", "document"}, a \in ACCESS_LEVELS,
          p \in BOOLEAN, c \in LinkedCourses \cup {None} :
          /\ blog_posts = IF t # "blog" THEN {}
                ELSE {[InitBlogPost EXCEPT
                          !.access_level = a, !.is_published = p,
                          !.related_courses = IF c = None THEN {} ELSE {c}]}
          /\ notes = IF t # "note" THEN {}
                ELSE {[InitNote EXCEPT !.access_level = a, !.is_published = p,
                                       !.course = c]}
          /\ documents = IF t # "document" THEN {}
                ELSE {[InitDocument EXCEPT !.access_level = a,
                                           !.is_published = p, !.course = c]}
    /\ enrollments = {InitEnrollment}
    /\ user_progress = {}
    /\ modules = {}
    /\ courses = [c \in CourseIds |-> InitCourse]
    /\ requests = [r \in Slots |-> IdleRequest]
    /\ response = NoResponse
    /\ served = 0
    /\ lessons = {} /\ assignments = {} /\ submissions = {}
    /\ submit_requests = [r \in Slots |-> IdleSubmit]
    /\ parent_connections = {InitConnection}
    /\ connect_requests = [r \in Slots |-> IdleConnect]
    /\ UnusedSite

NextDenial ==
    \/ \E u \in Visitors, slug \in Slugs : blog_detail(u, slug)
    \/ \E u \in Visitors, slug \in Slugs : note_detail(u, slug)
    \/ \E u \in Visitors, slug \in Slugs : document_detail(u, slug)
    \/ \E u \in Visitors, slug \in Slugs : document_download(u, slug)
    \/ \E r \in Slots, u \in Visitors, method \in Methods :
          parent_connect_begin(r, u, method, "pupil")
    \/ \E r \in Slots : parent_connect_save(r)
    \/ \E u \in Visitors, method \in Methods, id \in ConnectionIds :
          parent_cancel_connection(u, method, id)

SpecDenial == InitDenial /\ [][NextDenial]_vars

(***************************************************************************)
(* contact.  The view saves the message, then calls send_mail.             *)
(***************************************************************************)
Subjects == {"hello", "help"}

\* What send_mail(..., fail_silently=True) does: it delivers; or the
\* transport fails and the failure is swallowed; or it raises all the same
\* (an error that is no transport error, such as a bad header).
MailResults == {"sent", "swallowed", "raised"}

FinishContact(r, o, level) ==
    /\ contact_requests' = [contact_requests EXCEPT ![r] = IdleContact]
    /\ response' = [Response("contact", contact_requests[r].user, o)
                       EXCEPT !.context = [level |-> level]]

\* Up to form.save(): the view has no login_required.
contact_begin(r, u, method, valid, subject, saved) ==
    /\ contact_requests[r].pc = "idle"
    /\ IF method # "POST" \/ ~valid
          THEN /\ response' = [Response("contact", u, "render")
                                  EXCEPT !.context = [level |-> None]]
               /\ UNCHANGED <<contact_messages, contact_requests>>
       ELSE IF ~saved
          THEN \* form.save raised: logged, error message, redirect
               /\ response' = [Response("contact", u, "redirect_contact")
                                  EXCEPT !.context = [level |-> "error"]]
               /\ UNCHANGED <<contact_messages, contact_requests>>
       ELSE /\ Len(contact_messages) < MaxMessages
            /\ contact_messages' = Append(contact_messages,
                  [user |-> IF is_authenticated(u) THEN u ELSE None,
                   subject |-> subject])
            /\ contact_requests' = [contact_requests EXCEPT ![r] =
                  [pc |-> "send_mail", user |-> u,
                   contact_message |-> Len(contact_messages) + 1]]
            /\ UNCHANGED response
    /\ UNCHANGED <<documents, notes, blog_posts, enrollments, user_progress,
                   modules, courses, requests, served>>
    /\ UNCHANGED <<coursework, family, outbox, auth_users, startups, late>>

\* Mutant: the exception of send_mail is not caught.
on_mail_error_uncaught == [outcome |-> "500", level |-> None]

\* except Exception: logged, warning message, and the view goes on
on_mail_error == [outcome |-> "redirect_contact", level |-> "warning"]

contact_send_mail(r, result) ==
    LET q == contact_requests[r] IN
    /\ q.pc = "send_mail"
    /\ outbox' = IF result = "sent" THEN Append(outbox, q.contact_message)
                 ELSE outbox
    /\ IF result = "raised"
          THEN FinishContact(r, on_mail_error.outcome, on_mail_error.level)
          ELSE FinishContact(r, "redirect_contact", "success")
    /\ UNCHANGED <<documents, notes, blog_posts, enrollments, user_progress,
                   modules, courses, requests, served>>
    /\ UNCHANGED <<coursework, family, contact_messages, auth_users, startups, late>>

Senders == {"student", AnonymousUser}

InitContact ==
    /\ InitCommon
    /\ blog_posts = {} /\ notes = {} /\ documents = {}

NextContact ==
    \/ \E r \in Slots, u \in Senders, method \in Methods, valid \in BOOLEAN,
          subject \in Subjects, saved \in BOOLEAN :
             contact_begin(r, u, method, valid, subject, saved)
    \/ \E r \in Slots, result \in MailResults : contact_send_mail(r, result)

SpecContact == InitContact /\ [][NextContact]_vars

(***************************************************************************)
(* The superuser bootstrap.  Every process that loads the application runs *)
(* PortfolioConfig.ready; processes start and restart independently.       *)
(***************************************************************************)
username == "robertsichomba"
email == "sichombarobertbob@gmail.com"

Usernames == {username, "someone"}
Emails == {email, "someone@example.org"}

\* User.objects.filter(username=username).exists()
SuperuserExists == \E a \in auth_users : a.username = username

\* Mutant: no unique constraint on the table.
UserUnique_unconstrained(name, mail) == TRUE

\* CustomUser.username and CustomUser.email are unique=True.
UserUnique(name, mail) ==
    ~\E a \in auth_users : a.username = name \/ a.email = mail

\* Mutant: ready() lets the exception through.
ready_except_uncaught == "crashed"

\* except Exception in PortfolioConfig.ready: print and go on
ready_except == "skipped"

\* create_superuser_if_none up to the exists() query; the database may be
\* unavailable, which raises.
ready_begin(p, db_ready) ==
    /\ startups[p].pc = "idle"
    /\ startups' = [startups EXCEPT ![p] =
          IF ~db_ready THEN [pc |-> "running", result |-> ready_except]
          ELSE IF SuperuserExists
             THEN [pc |-> "running", result |-> "exists"]
          ELSE [pc |-> "create", result |-> None]]
    /\ UNCHANGED <<documents, notes, blog_posts, enrollments, user_progress,
                   modules, courses, requests, response, served>>
    /\ UNCHANGED <<coursework, family, contact_messages, contact_requests,
                   outbox, auth_users, late>>

\* User.objects.create_superuser(...)
ready_create(p) ==
    /\ startups[p].pc = "create"
    /\ IF UserUnique(username, email)
          THEN /\ auth_users' = auth_users \cup
                     {[id |-> FreeId(auth_users), username |-> username,
                       email |-> email, is_superuser |-> TRUE]}
               /\ startups' = [startups EXCEPT ![p] =
                     [pc |-> "running", result |-> "created"]]
          ELSE \* IntegrityError
               /\ startups' = [startups EXCEPT ![p] =
                     [pc |-> "running", result |-> ready_except]]
               /\ UNCHANGED auth_users
    /\ UNCHANGED <<documents, notes, blog_posts, enrollments, user_progress,
                   modules, courses, requests, response, served>>
    /\ UNCHANGED <<coursework, family, contact_messages, contact_requests,
                   outbox, late>>

\* The process is stopped and started again.
restart(p) ==
    /\ startups[p].pc = "running"
    /\ startups' = [startups EXCEPT ![p] = IdleStartup]
    /\ UNCHANGED <<documents, notes, blog_posts, enrollments, user_progress,
                   modules, courses, requests, response, served>>
    /\ UNCHANGED <<coursework, family, contact_messages, contact_requests,
                   outbox, auth_users, late>>

\* An account made by registration or by staff: any free name and address.
CustomUserAdmin_add(name, mail) ==
    /\ UserUnique(name, mail)
    /\ auth_users' = auth_users \cup
          {[id |-> FreeId(auth_users), username |-> name, email |-> mail,
            is_superuser |-> FALSE]}
    /\ response' = AdminResponse
    /\ UNCHANGED <<documents, notes, blog_posts, enrollments, user_progress,
                   modules, courses, requests, served>>
    /\ UNCHANGED <<coursework, family, contact_messages, contact_requests,
                   outbox, startups, late>>

CustomUserAdmin_delete(name) ==
    /\ \E a \in auth_users : a.username = name
    /\ auth_users' = {a \in auth_users : a.username # name}
    /\ response' = AdminResponse
    /\ UNCHANGED <<documents, notes, blog_posts, enrollments, user_progress,
                   modules, courses, requests, served>>
    /\ UNCHANGED <<coursework, family, contact_messages, contact_requests,
                   outbox, startups, late>>

InitBootstrap ==
    /\ InitCommon
    /\ blog_posts = {} /\ notes = {} /\ documents = {}

NextBootstrap ==
    \/ \E p \in Processes, db_ready \in BOOLEAN : ready_begin(p, db_ready)
    \/ \E p \in Processes : ready_create(p)
    \/ \E p \in Processes : restart(p)
    \/ \E name \in Usernames, mail \in Emails : CustomUserAdmin_add(name, mail)
    \/ \E name \in Usernames : CustomUserAdmin_delete(name)

SpecBootstrap == InitBootstrap /\ [][NextBootstrap]_vars

(***************************************************************************)
(* The counters under concurrent requests.  A request loads the row,       *)
(* decides, adds 1 to the attribute of the object it holds and saves that  *)
(* attribute; another request may run between the load and the save.       *)
(***************************************************************************)
\* Mutant: the save adds 1 to the stored value (an F() expression).
saved_counter_atomic(current, loaded) == current + 1

\* obj.counter += 1; obj.save(update_fields=[counter]): the UPDATE writes
\* the value computed from the loaded object.
saved_counter(current, loaded) == loaded + 1

FinishView(r, o) ==
    /\ view_requests' = [view_requests EXCEPT ![r] = IdleView]
    /\ response' = [Response(view_requests[r].view, view_requests[r].user, o)
                       EXCEPT !.context = [loaded |-> view_requests[r].loaded]]

\* The requests of a view that hold a loaded row.
InFlight(view) ==
    Cardinality({r \in Slots : view_requests[r].view = view})

\* blog_detail up to the increment.
blog_detail_load(r, u, slug) ==
    LET found == BySlug(blog_posts, slug)
        o == blog_detail_outcome(u, found) IN
    /\ view_requests[r].pc = "idle"
    /\ IF o = "render"
          THEN /\ TheRow(found).views < MaxCount
               /\ view_requests' = [view_requests EXCEPT ![r] =
                     [pc |-> "save", view |-> "blog_detail", user |-> u,
                      loaded |-> TheRow(found)]]
               /\ UNCHANGED response
          ELSE /\ response' = Response("blog_detail", u, o)
               /\ UNCHANGED view_requests
    /\ UNCHANGED <<documents, notes, blog_posts, enrollments, user_progress,
                   modules, courses, requests, served>>
    /\ UNCHANGED <<coursework, family, contact_messages, contact_requests,
                   outbox, auth_users, startups, auth, booking>>

\* blog_post.views += 1; blog_post.save(update_fields=['views'])
blog_detail_save(r) ==
    LET q == view_requests[r] IN
    /\ q.pc = "save" /\ q.view = "blog_detail"
    /\ blog_posts' = {IF b.slug = q.loaded.slug
                         THEN [b EXCEPT !.views =
                                  saved_counter(b.views, q.loaded.views)]
                         ELSE b : b \in blog_posts}
    /\ FinishView(r, "render")
    /\ UNCHANGED <<documents, notes, enrollments, user_progress,
                   modules, courses, requests, served>>
    /\ UNCHANGED <<coursework, family, contact_messages, contact_requests,
                   outbox, auth_users, startups, auth, booking>>

\* document_download up to the increment.
document_download_load(r, u, slug) ==
    LET found == BySlug(documents, slug)
        o == document_download_outcome(u, found) IN
    /\ view_requests[r].pc = "idle"
    /\ IF o = "file"
          THEN /\ served + InFlight("document_download") < MaxCount
               /\ view_requests' = [view_requests EXCEPT ![r] =
                     [pc |-> "save", view |-> "document_download", user |-> u,
                      loaded |-> TheRow(found)]]
               /\ UNCHANGED response
          ELSE /\ response' = Response("document_download", u, o)
               /\ UNCHANGED view_requests
    /\ UNCHANGED <<documents, notes, blog_posts, enrollments, user_progress,
                   modules, courses, requests, served>>
    /\ UNCHANGED <<coursework, family, contact_messages, contact_requests,
                   outbox, auth_users, startups, auth, booking>>

\* document.download_count += 1; document.save(update_fields=[...]);
\* return FileResponse(...)
document_download_save(r) ==
    LET q == view_requests[r] IN
    /\ q.pc = "save" /\ q.view = "document_download"
    /\ documents' = {IF d.slug = q.loaded.slug
                        THEN [d EXCEPT !.download_count =
                                 saved_counter(d.download_count,
                                               q.loaded.download_count)]
                        ELSE d : d \in documents}
    /\ served' = served + 1
    /\ FinishView(r, "file")
    /\ UNCHANGED <<notes, blog_posts, enrollments, user_progress,
                   modules, courses, requests>>
    /\ UNCHANGED <<coursework, family, contact_messages, contact_requests,
                   outbox, auth_users, startups, auth, booking>>

\* One published blog post and one published document, open to all or to
\* staff only.
InitCounters ==
    /\ InitCommon
    /\ notes = {}
    /\ \E a \in {"public", "private"} :
          blog_posts = {[InitBlogPost EXCEPT !.is_published = TRUE,
                                             !.access_level = a]}
    /\ \E a \in {"registered", "private"} :
          documents = {[InitDocument EXCEPT !.is_published = TRUE,
                                            !.access_level = a]}

NextCounters ==
    \/ \E r \in Slots, u \in Requesters, slug \in Slugs :
          blog_detail_load(r, u, slug)
    \/ \E r \in Slots : blog_detail_save(r)
    \/ \E r \in Slots, u \in Requesters, slug \in Slugs :
          document_download_load(r, u, slug)
    \/ \E r \in Slots : document_download_save(r)

SpecCounters == InitCounters /\ [][NextCounters]_vars

(***************************************************************************)
(* The document listings: documents_list and ResourceListView.             *)
(***************************************************************************)
ListingResponse(v, u, o, rows) ==
    [Response(v, u, o) EXCEPT !.context = [documents |-> {d.slug : d \in rows}]]

\* The queryset documents_list paginates.
documents_list_queryset(u) ==
    LET base_qs == {d \in documents : d.is_published} IN
    IF is_superuser(u) \/ is_staff(u) THEN base_qs
    ELSE {d \in base_qs : d.access_level \in {"public", "registered"}}
         \cup {d \in base_qs : /\ d.access_level = "course_students"
                               /\ d.course # None
                               /\ EnrollmentExists(u, d.course)}
         \cup {d \in base_qs : d.owner = u /\ d.access_level = "private"}

documents_list(u) ==
    /\ response' = IF ~is_authenticated(u)
                      THEN ListingResponse("documents_list", u,
                                           "redirect_login", {})
                      ELSE ListingResponse("documents_list", u, "render",
                                           documents_list_queryset(u))
    /\ UNCHANGED <<documents, notes, blog_posts, enrollments, user_progress,
                   modules, courses, requests, served>>
    /\ UNCHANGED <<coursework, family, site>>

\* The filters of ResourceListView.get_queryset, before the ordering.
ResourceListView_filtered(u) ==
    LET queryset == {d \in documents : d.is_published} IN
    IF ~is_authenticated(u)
       THEN {d \in queryset : d.access_level = "public"}
    ELSE IF ~(is_staff(u) \/ is_superuser(u))
       THEN {d \in queryset :
                \/ d.access_level \in {"public", "registered"}
                \/ /\ d.access_level = "course_students"
                   /\ d.course # None
                   /\ EnrollmentExists(u, d.course)
                \/ d.owner = u}
    ELSE queryset

\* The fields of Document.
DocumentFields ==
    {"id", "title", "slug", "description", "file", "document_type",
     "uploaded_at", "owner", "is_published", "access_level", "course",
     "file_size", "download_count"}

\* queryset.order_by(field): a name that is no field of the model raises
\* FieldError.  The model keeps tables as sets, so the order is not kept.
order_by(rows, field) ==
    IF field \in DocumentFields THEN [raised |-> FALSE, rows |-> rows]
    ELSE [raised |-> TRUE, rows |-> {}]

\* ResourceListView has no login_required.  get_queryset orders by
\* '-uploaded_date', which Document does not have: the view answers 500 and
\* shows no document.
ResourceListView(u) ==
    LET queryset == order_by(ResourceListView_filtered(u), "uploaded_date") IN
    /\ response' = IF queryset.raised
                      THEN ListingResponse("ResourceListView", u, "500", {})
                      ELSE ListingResponse("ResourceListView", u, "render",
                                           queryset.rows)
    /\ UNCHANGED <<documents, notes, blog_posts, enrollments, user_progress,
                   modules, courses, requests, served>>
    /\ UNCHANGED <<coursework, family, site>>

InitListing ==
    /\ InitCommon
    /\ blog_posts = {} /\ notes = {}
    /\ documents = {InitDocument}

NextListing ==
    \/ \E u \in Requesters : documents_list(u)
    \/ \E u \in Requesters : ResourceListView(u)
    \/ \E u \in Requesters, slug \in Slugs : document_download(u, slug)
    \/ \E d \in documents, a \in ACCESS_LEVELS, p \in BOOLEAN,
          c \in LinkedCourses \cup {None} : DocumentAdmin(d, a, p, c)
    \/ \E u \in Students, c \in LinkedCourses, s \in {"active"} :
          EnrollmentAdmin(u, c, s)

SpecListing == InitListing /\ [][NextListing]_vars

(***************************************************************************)
(* Logging in and verifying the email address.  A user is authenticated    *)
(* when the browser of that user holds a session.                          *)
(***************************************************************************)
\* timezone.timedelta(hours=24): how long a verification code is valid
EXPIRY_HOURS == 24
\* The clock moves in steps of half that period, so that a code is seen
\* younger than the limit, exactly at it, and older.
HoursPerTick == EXPIRY_HOURS \div 2
Codes == {"111111", "222222"}

\* The accounts that log in: a student made by course_register and a
\* visitor made by portfolio_signup.
Logins == {"student", "guest"}

AuthResponse(v, u, o, method, code) ==
    [Response(v, u, o) EXCEPT !.context = [method |-> method, code |-> code]]

\* course_login: request.user.is_authenticated, then the form, then the
\* test of role and email_verified, then login().
course_login(u, method, valid) ==
    /\ IF u \in sessions
          THEN /\ response' = AuthResponse("course_login", u,
                                           "redirect_dashboard", method, None)
               /\ UNCHANGED sessions
       ELSE IF method # "POST" \/ ~valid
          THEN /\ response' = AuthResponse("course_login", u, "render",
                                           method, None)
               /\ UNCHANGED sessions
       ELSE IF role(u) # "visitor" /\ u \notin email_verified
          THEN /\ response' = AuthResponse("course_login", u,
                                           "redirect_verify_email", method, None)
               /\ UNCHANGED sessions
       ELSE /\ sessions' = sessions \cup {u}
            /\ response' = AuthResponse("course_login", u,
                                        "redirect_dashboard", method, None)
    /\ UNCHANGED <<documents, notes, blog_posts, enrollments, user_progress,
                   modules, courses, requests, served>>
    /\ UNCHANGED <<coursework, family, contact_messages, contact_requests,
                   outbox, auth_users, startups, view_requests, booking>>
    /\ UNCHANGED <<email_verified, email_verifications, clock>>

\* portfolio_login calls login() for every user the form authenticates.
portfolio_login_allowed(u) == TRUE

portfolio_login(u, method, valid) ==
    /\ IF u \in sessions
          THEN /\ response' = AuthResponse("portfolio_login", u,
                                           "redirect_home", method, None)
               /\ UNCHANGED sessions
       ELSE IF method # "POST" \/ ~valid \/ ~portfolio_login_allowed(u)
          THEN /\ response' = AuthResponse("portfolio_login", u, "render",
                                           method, None)
               /\ UNCHANGED sessions
       ELSE /\ sessions' = sessions \cup {u}
            /\ response' = AuthResponse("portfolio_login", u,
                                        "redirect_home", method, None)
    /\ UNCHANGED <<documents, notes, blog_posts, enrollments, user_progress,
                   modules, courses, requests, served>>
    /\ UNCHANGED <<coursework, family, contact_messages, contact_requests,
                   outbox, auth_users, startups, view_requests, booking>>
    /\ UNCHANGED <<email_verified, email_verifications, clock>>

portfolio_logout(u) ==
    /\ sessions' = sessions \ {u}
    /\ response' = AuthResponse("portfolio_logout", u, "redirect_home",
                                "GET", None)
    /\ UNCHANGED <<documents, notes, blog_posts, enrollments, user_progress,
                   modules, courses, requests, served>>
    /\ UNCHANGED <<coursework, family, contact_messages, contact_requests,
                   outbox, auth_users, startups, view_requests, booking>>
    /\ UNCHANGED <<email_verified, email_verifications, clock>>

\* The age of a row in hours.
Age(v) == (clock - v.created_at) * HoursPerTick

\* Mutant: a code never expires.
is_expired_never(v) == FALSE

\* timezone.now() > self.created_at + timezone.timedelta(hours=24)
is_expired(v) == Age(v) > EXPIRY_HOURS

\* EmailVerification.objects.filter(user=, code=, is_used=False).first():
\* the matching row of the lowest id, or no row.
first_verification(u, code) ==
    LET found == {v \in email_verifications :
                     v.user = u /\ v.code = code /\ ~v.is_used} IN
    {v \in found : \A w \in found : v.id <= w.id}

verify_email(u, method, code) ==
    LET verification == first_verification(u, code) IN
    /\ IF u \notin sessions
          THEN /\ response' = AuthResponse("verify_email", u, "redirect_login",
                                           method, code)
               /\ UNCHANGED <<email_verified, email_verifications>>
       ELSE IF method # "POST"
          THEN /\ response' = AuthResponse("verify_email", u, "render",
                                           method, code)
               /\ UNCHANGED <<email_verified, email_verifications>>
       ELSE IF verification # {} /\ ~is_expired(TheRow(verification))
          THEN /\ email_verifications' =
                     Replace(email_verifications, TheRow(verification),
                             [TheRow(verification) EXCEPT !.is_used = TRUE])
               /\ email_verified' = email_verified \cup {u}
               /\ response' = AuthResponse("verify_email", u,
                                           "redirect_dashboard", method, code)
       ELSE /\ response' = AuthResponse("verify_email", u, "render",
                                        method, code)
            /\ UNCHANGED <<email_verified, email_verifications>>
    /\ UNCHANGED <<documents, notes, blog_posts, enrollments, user_progress,
                   modules, courses, requests, served>>
    /\ UNCHANGED <<coursework, family, contact_messages, contact_requests,
                   outbox, auth_users, startups, view_requests, booking>>
    /\ UNCHANGED <<sessions, clock>>

NewEmailVerification(u, code) ==
    [id |-> FreeId(email_verifications), user |-> u, code |-> code,
     is_used |-> FALSE, created_at |-> clock]

\* resend_verification: a new row with a random code, for any method.
resend_verification(u, code) ==
    /\ IF u \notin sessions
          THEN /\ response' = AuthResponse("resend_verification", u,
                                           "redirect_login", "GET", None)
               /\ UNCHANGED email_verifications
          ELSE /\ Cardinality(email_verifications) < MaxCodes
               /\ email_verifications' =
                     email_verifications \cup {NewEmailVerification(u, code)}
               /\ response' = AuthResponse("resend_verification", u,
                                           "redirect_verify_email", "GET", None)
    /\ UNCHANGED <<documents, notes, blog_posts, enrollments, user_progress,
                   modules, courses, requests, served>>
    /\ UNCHANGED <<coursework, family, contact_messages, contact_requests,
                   outbox, auth_users, startups, view_requests, booking>>
    /\ UNCHANGED <<sessions, email_verified, clock>>

\* Time passes.
Tick ==
    /\ clock < MaxClock
    /\ clock' = clock + 1
    /\ UNCHANGED <<documents, notes, blog_posts, enrollments, user_progress,
                   modules, courses, requests, response, served>>
    /\ UNCHANGED <<coursework, family, contact_messages, contact_requests,
                   outbox, auth_users, startups, view_requests, booking>>
    /\ UNCHANGED <<sessions, email_verified, email_verifications>>

\* After course_register of the student: the account is unverified and has
\* one code.
InitAuth ==
    /\ enrollments = {} /\ user_progress = {} /\ modules = {}
    /\ courses = [c \in CourseIds |-> InitCourse]
    /\ requests = [r \in Slots |-> IdleRequest]
    /\ response = NoResponse
    /\ served = 0
    /\ lessons = {} /\ assignments = {} /\ submissions = {}
    /\ submit_requests = [r \in Slots |-> IdleSubmit]
    /\ blog_posts = {} /\ notes = {} /\ documents = {}
    /\ UnusedFamily
    /\ contact_messages = <<>>
    /\ contact_requests = [r \in Slots |-> IdleContact]
    /\ outbox = <<>>
    /\ auth_users = {}
    /\ startups = [p \in Processes |-> IdleStartup]
    /\ view_requests = [r \in Slots |-> IdleView]
    /\ UnusedBooking
    /\ sessions = {}
    /\ email_verified = {}
    /\ clock = 0
    /\ \E code \in Codes :
          email_verifications =
             {[id |-> 1, user |-> "student", code |-> code,
               is_used |-> FALSE, created_at |-> 0]}

NextAuth ==
    \/ \E u \in Logins, method \in Methods, valid \in BOOLEAN :
          course_login(u, method, valid)
    \/ \E u \in Logins, method \in Methods, valid \in BOOLEAN :
          portfolio_login(u, method, valid)
    \/ \E u \in Logins : portfolio_logout(u)
    \/ \E u \in Logins, method \in Methods, code \in Codes :
          verify_email(u, method, code)
    \/ \E u \in Logins, code \in Codes : resend_verification(u, code)
    \/ Tick

SpecAuth == InitAuth /\ [][NextAuth]_vars

(***************************************************************************)
(* Booking a meeting.  meeting_detail tests the attendees and the capacity *)
(* and then adds the requester; another request may run in between.        *)
(***************************************************************************)
Bookers == {"student", "pupil", "guest", AnonymousUser}
Capacities == {1, 2}

Attendees == {a.user : a \in meeting_attendees}

\* meeting.max_attendees and meeting.attendees.count() >= meeting.max_attendees
is_full ==
    /\ ~meeting.max_attendees.null
    /\ meeting.max_attendees.value # 0
    /\ Cardinality(meeting_attendees) >= meeting.max_attendees.value

FinishBooking(r, o) ==
    /\ booking_requests' = [booking_requests EXCEPT ![r] = IdleBooking]
    /\ response' = Response("meeting_detail", booking_requests[r].user, o)

\* meeting_detail up to the branch of the POST; passed says whether the
\* date and start time of the meeting lie in the past.
meeting_detail_check(r, u, method, passed) ==
    LET o == IF ~is_authenticated(u) THEN "redirect_login"
             ELSE IF ~meeting.is_active THEN "404"
             ELSE IF passed THEN "redirect_meetings_list"
             ELSE IF method # "POST" THEN "render"
             ELSE IF u \in Attendees THEN "already_registered"
             ELSE IF is_full THEN "full"
             ELSE "add" IN
    /\ booking_requests[r].pc = "idle"
    /\ IF o = "add"
          THEN /\ booking_requests' = [booking_requests EXCEPT ![r] =
                     [pc |-> "add", user |-> u]]
               /\ UNCHANGED response
          ELSE /\ response' = Response("meeting_detail", u, o)
               /\ UNCHANGED booking_requests
    /\ UNCHANGED <<documents, notes, blog_posts, enrollments, user_progress,
                   modules, courses, requests, served>>
    /\ UNCHANGED <<coursework, family, contact_messages, contact_requests,
                   outbox, auth_users, startups, view_requests, auth>>
    /\ UNCHANGED <<meeting, meeting_attendees>>

\* meeting.attendees.add(request.user): inserts the row of the through
\* table unless the user has one.
meeting_detail_add(r) ==
    LET u == booking_requests[r].user IN
    /\ booking_requests[r].pc = "add"
    /\ meeting_attendees' =
          IF u \in Attendees THEN meeting_attendees
          ELSE meeting_attendees \cup
                  {[id |-> FreeId(meeting_attendees), user |-> u]}
    /\ FinishBooking(r, "booked")
    /\ UNCHANGED <<documents, notes, blog_posts, enrollments, user_progress,
                   modules, courses, requests, served>>
    /\ UNCHANGED <<coursework, family, contact_messages, contact_requests,
                   outbox, auth_users, startups, view_requests, auth>>
    /\ UNCHANGED meeting

\* A meeting with a capacity and no attendee.
InitBooking ==
    /\ enrollments = {} /\ user_progress = {} /\ modules = {}
    /\ courses = [c \in CourseIds |-> InitCourse]
    /\ requests = [r \in Slots |-> IdleRequest]
    /\ response = NoResponse
    /\ served = 0
    /\ lessons = {} /\ assignments = {} /\ submissions = {}
    /\ submit_requests = [r \in Slots |-> IdleSubmit]
    /\ blog_posts = {} /\ notes = {} /\ documents = {}
    /\ UnusedFamily
    /\ contact_messages = <<>>
    /\ contact_requests = [r \in Slots |-> IdleContact]
    /\ outbox = <<>>
    /\ auth_users = {}
    /\ startups = [p \in Processes |-> IdleStartup]
    /\ view_requests = [r \in Slots |-> IdleView]
    /\ UnusedAuth
    /\ \E n \in Capacities :
          meeting = [InitMeeting EXCEPT !.max_attendees =
                                           [null |-> FALSE, value |-> n]]
    /\ meeting_attendees = {}
    /\ booking_requests = [r \in Slots |-> IdleBooking]

NextBooking ==
    \/ \E r \in Slots, u \in Bookers, method \in Methods, passed \in BOOLEAN :
          meeting_detail_check(r, u, method, passed)
    \/ \E r \in Slots : meeting_detail_add(r)

SpecBooking == InitBooking /\ [][NextBooking]_vars

(***************************************************************************)
(* Managing the modules of a course, starting from no module.              *)
(***************************************************************************)
ModuleActions == {"add_module", "delete_module", "get"}

InitModules == InitEnroll

NextModules ==
    \E u \in {"teacher", "student"}, c \in CourseIds,
       action \in ModuleActions, module_id \in 1..MaxCourseModules :
          manage_modules(u, c, action, module_id, MaxCourseModules)

SpecModules == InitModules /\ [][NextModules]_vars

(***************************************************************************)
(* Pricing: staff and the instructor set the price of a course while       *)
(* students enrol.                                                         *)
(***************************************************************************)
\* request.POST.get('price', 0): the posted text "0" or "10", or the default
\* integer 0 when the form carries no price field.
PriceFields == PostedPrices \cup {[posted |-> TRUE, value |-> 0],
                                  [posted |-> FALSE, value |-> 0]}

InitPricing == InitEnroll

NextPricing ==
    \/ \E r \in Slots, u \in Enrollers, c \in ManagedCourses :
          enroll_course_begin(r, u, c)
    \/ \E r \in Slots : enroll_course_create_enrollment(r)
    \/ \E r \in Slots : enroll_course_count(r)
    \/ \E r \in Slots : enroll_course_create_progress(r)
    \/ \E c \in ManagedCourses, f \in CourseForms :
          CourseAdmin(c, f[1], f[2], f[3])
    \/ \E u \in Staffers, c \in ManagedCourses, price \in PriceFields :
          instructor_course_edit(u, c, "POST", price)

SpecPricing == InitPricing /\ [][NextPricing]_vars

(***************************************************************************)
(* Two parents of one student: requests to be connected, staff verifying   *)
(* them, cancellations, and the parent's view of a student.                *)
(***************************************************************************)
Parents == {"parent", "guardian", "student", AnonymousUser}
Guardians == {"parent", "guardian"}
Pupils == {"student"}
StudentIds == {"student", "pupil", "teacher"}

\* Mutant: any connection of the pair will do, verified or not.
verified_connection_any(parent, student) == ConnectionRows(parent, student)

\* ParentConnection.objects.filter(parent=..., student=..., is_verified=True)
verified_connection(parent, student) ==
    {x \in ConnectionRows(parent, student) : x.is_verified}

RECURSIVE SumGrades(_)
SumGrades(rows) ==
    IF rows = {} THEN 0
    ELSE LET x == TheRow(rows) IN x.grade.value + SumGrades(rows \ {x})

\* aggregate(Avg('grade'))['grade__avg'] or 0, in whole points
Avg(rows) == IF rows = {} THEN 0 ELSE SumGrades(rows) \div Cardinality(rows)

parent_student_detail(u, student_id) ==
    LET o == IF ~is_authenticated(u) THEN "redirect_login"
             ELSE IF role(u) # "parent" THEN "redirect_dashboard"
             ELSE IF role(student_id) # "student" THEN "404"
             ELSE IF verified_connection(u, student_id) = {} THEN "404"
             ELSE "render"
        graded_submissions ==
            {x \in submissions : x.user = student_id /\ x.is_graded}
        context ==
            [student |-> student_id,
             enrollments |-> {e \in enrollments : e.user = student_id},
             progress |-> {p \in user_progress : p.user = student_id},
             avg_grade |-> Avg(graded_submissions),
             recent_submissions |-> {x \in submissions : x.user = student_id}]
    IN
    /\ response' = IF o = "render"
                      THEN [Response("parent_student_detail", u, o)
                               EXCEPT !.context = context]
                      ELSE Response("parent_student_detail", u, o)
    /\ UNCHANGED <<documents, notes, blog_posts, enrollments, user_progress,
                   modules, courses, requests, served>>
    /\ UNCHANGED <<coursework, family, site>>

\* parent_dashboard: the verified and the pending connections of the parent
parent_dashboard(u) ==
    LET o == IF ~is_authenticated(u) THEN "redirect_login"
             ELSE IF role(u) # "parent" THEN "redirect_dashboard"
             ELSE "render"
        mine == {x \in parent_connections : x.parent = u}
        context ==
            [connections |-> {x \in mine : x.is_verified},
             students |-> {x.student : x \in {y \in mine : y.is_verified}},
             pending_connections |-> {x \in mine : ~x.is_verified}]
    IN
    /\ response' = IF o = "render"
                      THEN [Response("parent_dashboard", u, o)
                               EXCEPT !.context = context]
                      ELSE Response("parent_dashboard", u, o)
    /\ UNCHANGED <<documents, notes, blog_posts, enrollments, user_progress,
                   modules, courses, requests, served>>
    /\ UNCHANGED <<coursework, family, site>>

InitGuardians ==
    /\ blog_posts = {} /\ notes = {} /\ documents = {}
    /\ courses = [c \in CourseIds |-> InitCourse]
    /\ enrollments = {InitEnrollment}
    /\ user_progress = {InitUserProgress}
    /\ modules = {}
    /\ lessons = {}
    /\ assignments = {InitAssignment}
    /\ submissions = {[InitSubmission EXCEPT !.grade = Grade(80),
                                             !.is_graded = TRUE,
                                             !.graded_by = "teacher"]}
    /\ requests = [r \in Slots |-> IdleRequest]
    /\ submit_requests = [r \in Slots |-> IdleSubmit]
    /\ response = NoResponse
    /\ served = 0
    /\ UnusedFamily /\ UnusedSite

NextGuardians ==
    \/ \E r \in Slots, u \in Guardians, student_email \in Pupils :
          parent_connect_begin(r, u, "POST", student_email)
    \/ \E r \in Slots : parent_connect_save(r)
    \/ \E u \in Parents, id \in ConnectionIds :
          parent_cancel_connection(u, "POST", id)
    \/ \E id \in ConnectionIds, verified \in BOOLEAN :
          ParentConnectionAdmin(id, verified)
    \/ \E u \in Parents, student_id \in StudentIds :
          parent_student_detail(u, student_id)
    \/ \E u \in Parents : parent_dashboard(u)

SpecGuardians == InitGuardians /\ [][NextGuardians]_vars

(***************************************************************************)
(* Properties of the content views.  response is the response to the most  *)
(* recent request, so the rows it is compared with are the rows the        *)
(* handler saw (a granted view changes the counter of the row only).       *)
(***************************************************************************)
Granted == {"render", "file"}
ByView(v) == response.view = v
HasActiveEnrollment(u, c) ==
    \E e \in enrollments : e.user = u /\ e.course = c /\ e.status = "active"

\* C1 as stated: a course_students Document is served only to a requester
\* enrolled in the document's course or to staff; a document without a
\* linked course is served to nobody else.
C1_Original ==
    \A d \in documents :
        (ByView("document_download") /\ d.access_level = "course_students"
            /\ response.outcome = "file")
        => \/ is_staff(response.user)
           \/ d.course # None /\ EnrollmentExists(response.user, d.course)

\* C1 (amended): a course_students Document linked to a course is served
\* exactly to authenticated requesters who have an Enrollment in that course
\* or are staff; one without a linked course is served exactly to the
\* authenticated requesters; every other request is refused, no file served.
C1_CourseStudentsDownload ==
    \A d \in documents :
        (ByView("document_download") /\ d.access_level = "course_students")
        => LET u == response.user IN
           /\ response.outcome \in {"file", "redirect_document_detail",
                                    "redirect_login"}
           /\ response.outcome = "file" <=>
                 /\ is_authenticated(u)
                 /\ d.course # None =>
                       EnrollmentExists(u, d.course) \/ is_staff(u)

C1_Witness ==
    \E d \in documents :
        /\ ByView("document_download") /\ d.access_level = "course_students"
        /\ d.course # None /\ response.outcome = "file"
        /\ ~is_staff(response.user)
        /\ EnrollmentExists(response.user, d.course)

\* C2 as stated: for a published private BlogPost, blog_detail denies the
\* unauthenticated requester and renders the post for its author, staff or not.
C2_Original ==
    \A b \in blog_posts :
        (ByView("blog_detail") /\ b.is_published /\ b.access_level = "private")
        => /\ ~is_authenticated(response.user) => response.outcome # "render"
           /\ response.user = b.author => response.outcome = "render"

\* C2 (amended): for a published private BlogPost, blog_detail denies the
\* unauthenticated requester (redirect to login) and renders the post exactly
\* for staff and superusers; an author who is neither gets not-found.
C2_PrivateBlogPost ==
    \A b \in blog_posts :
        (ByView("blog_detail") /\ b.is_published /\ b.access_level = "private")
        => LET u == response.user IN
           /\ ~is_authenticated(u) => response.outcome = "redirect_login"
           /\ response.outcome = "render" <=> is_staff(u) \/ is_superuser(u)
           /\ (u = b.author /\ ~is_staff(u) /\ ~is_superuser(u))
                 => response.outcome = "404"

C2_Witness ==
    \E b \in blog_posts :
        /\ ByView("blog_detail") /\ b.is_published /\ b.access_level = "private"
        /\ response.user = b.author /\ response.outcome = "404"

PublicItemViewed ==
    \/ ByView("blog_detail") /\ \E b \in blog_posts :
          b.is_published /\ b.access_level = "public"
    \/ ByView("note_detail") /\ \E n \in notes :
          n.is_published /\ n.access_level = "public"
    \/ ByView("document_detail") /\ \E d \in documents :
          d.is_published /\ d.access_level = "public"
    \/ ByView("document_download") /\ \E d \in documents :
          d.is_published /\ d.access_level = "public"

C5_ActiveEnrollmentOnly ==
    /\ \A b \in blog_posts :
          (ByView("blog_detail") /\ b.access_level = "course_students"
              /\ b.related_courses # {} /\ response.outcome \in Granted
              /\ ~is_staff(response.user))
          => \E c \in b.related_courses : HasActiveEnrollment(response.user, c)
    /\ \A n \in notes :
          (ByView("note_detail") /\ n.access_level = "course_students"
              /\ n.course # None /\ response.outcome \in Granted
              /\ ~is_staff(response.user))
          => HasActiveEnrollment(response.user, n.course)
    /\ \A d \in documents :
          (ByView("document_download") /\ d.access_level = "course_students"
              /\ d.course # None /\ response.outcome \in Granted
              /\ ~is_staff(response.user))
          => HasActiveEnrollment(response.user, d.course)

\* C6: every granted document_download adds exactly 1 to download_count and
\* every denied one leaves it alone: after N granted downloads the counter
\* is its initial value (0) plus N.
C6_DownloadCount ==
    \A d \in documents : d.download_count = InitDocument.download_count + served

C6_Witness ==
    /\ served >= 2
    /\ ByView("document_download")
    /\ response.outcome = "redirect_document_detail"

(***************************************************************************)
(* Properties of enroll_course.                                            *)
(***************************************************************************)
UniqueEnrollment ==
    \A u \in Users, c \in CourseIds : Cardinality(EnrollmentRows(u, c)) <= 1

\* The response resp answers user u of view v with outcome o.
Answers(resp, v, u, o) == resp.view = v /\ resp.user = u /\ resp.outcome = o

\* A step taken while (u, c) is enrolled: it adds no Enrollment row for the
\* pair; it adds a UserProgress row for the pair only as the last query of
\* the request that created the pair's Enrollment row; and only that step
\* answers u with success.
NoRowForEnrolledPair ==
    \A u \in Users, c \in CourseIds :
        EnrollmentExists(u, c) =>
            /\ EnrollmentRows(u, c)' = EnrollmentRows(u, c)
            /\ \/ /\ UserProgressRows(u, c)' = UserProgressRows(u, c)
                  /\ response' # response =>
                        ~Answers(response', "enroll_course", u, "enrolled")
               \/ \E r \in Slots :
                     /\ requests[r].pc = "create_progress"
                     /\ requests[r].user = u /\ requests[r].course = c
                     /\ requests[r].enrollment \in
                           {e.id : e \in EnrollmentRows(u, c)}
                     /\ requests'[r].pc = "idle"

\* C7: after any interleaving of enroll_course requests (two requests of one
\* user for one course included) there is at most one Enrollment row per
\* (user, course); a request for an already-enrolled pair is rejected and
\* creates no Enrollment and no UserProgress row.
C7_OneEnrollmentPerPair == []UniqueEnrollment /\ [][NoRowForEnrolledPair]_vars

\* A second request of the user was rejected by the unique constraint while
\* the first one, which created the Enrollment row, is still in flight.
C7_Witness ==
    /\ Answers(response, "enroll_course", "student", "500")
    /\ Cardinality(EnrollmentRows("student", "c1")) = 1
    /\ UserProgressRows("student", "c1") = {}
    /\ \E r \in Slots : requests[r].user = "student" /\ requests[r].pc = "count"

\* C8: the count query reads the number of published modules of the course,
\* and the request that ends in success leaves exactly one Enrollment of
\* status 'active' and exactly one UserProgress for its (user, course), the
\* latter with total_chapters equal to what the count query read.
EnrollCreatesRows ==
    \A r \in Slots, u \in Users, c \in CourseIds :
        LET q == requests[r] IN
        (q.user = u /\ q.course = c) =>
        /\ (q.pc = "count" /\ requests'[r].pc = "create_progress")
              => requests'[r].total_chapters =
                    Cardinality({m \in modules :
                                    m.course = c /\ m.is_published})
        /\ (q.pc = "create_progress" /\ requests'[r].pc = "idle"
               /\ response'.outcome = "enrolled")
              => /\ UserProgressRows(u, c) = {}
                 /\ \E e \in enrollments' :
                       /\ EnrollmentRows(u, c)' = {e}
                       /\ e.status = "active" /\ e.id = q.enrollment
                 /\ \E p \in user_progress' :
                       /\ UserProgressRows(u, c)' = {p}
                       /\ p.total_chapters = q.total_chapters

C8_EnrollCreatesRows == [][EnrollCreatesRows]_vars

\* A request succeeded for a course that has a module that is not published.
C8_Witness ==
    /\ Answers(response, "enroll_course", "student", "enrolled")
    /\ \E p \in UserProgressRows("student", "c1") : p.total_chapters = 0
    /\ \E m \in ModulesOf("c1") : ~m.is_published

\* C9: enrolling increments Course.enrollment_count: once no request is in
\* flight, the counter of a course has grown by the number of Enrollment rows
\* created for it.
C9_EnrollmentCount ==
    (\A r \in Slots : requests[r].pc = "idle")
    => \A c \in CourseIds :
          courses[c].enrollment_count =
             InitCourse.enrollment_count
             + Cardinality({e \in enrollments : e.course = c})

(***************************************************************************)
(* Properties of calculate_progress.                                       *)
(***************************************************************************)
\* C10: calculate_progress returns 0 whenever total_chapters is 0, whatever
\* chapters_completed is, and chapters_completed / total_chapters * 100
\* otherwise (50 for 5 of 10); it never divides by zero, so the dashboard of
\* an authenticated user always renders.
C10_CalculateProgress ==
    ByView("dashboard") =>
        /\ is_authenticated(response.user) => response.outcome = "render"
        /\ \A n \in DOMAIN response.context :
              LET shown == response.context[n].percentage IN
              \A p \in UserProgressRows(response.user,
                                        response.context[n].course) :
                 /\ ~Raised(shown)
                 /\ p.total_chapters = 0 => shown = Number(0)
                 /\ p.total_chapters # 0 =>
                       shown.num * p.total_chapters
                          = p.chapters_completed * 100 * shown.den
                 /\ (p.chapters_completed = 5 /\ p.total_chapters = 10)
                       => shown = Number(50)

C10_Witness ==
    /\ ByView("dashboard") /\ response.outcome = "render"
    /\ \E n \in DOMAIN response.context :
          /\ response.context[n].percentage = Number(0)
          /\ \E p \in UserProgressRows(response.user,
                                       response.context[n].course) :
                p.total_chapters = 0 /\ p.chapters_completed = 5

(***************************************************************************)
(* Properties of the coursework views.                                     *)
(***************************************************************************)
UniqueSubmission ==
    \A u \in Users \cup Learners, a \in AssignmentIds :
        Cardinality(SubmissionRows(u, a)) <= 1

\* A POST that ends in success for a pair that already has a Submission
\* leaves the table with the same rows, the pair's row carrying the posted
\* text.
ResubmitUpdates ==
    \A r \in Slots, u \in Learners, a \in AssignmentIds, t \in TextContents :
        ( /\ submit_requests[r] # IdleSubmit
          /\ submit_requests[r].user = u
          /\ submit_requests[r].assignment = a
          /\ submit_requests[r].text_content = t
          /\ submit_requests'[r] = IdleSubmit
          /\ response'.outcome = "redirect_assignment_detail"
          /\ SubmissionRows(u, a) # {} )
        => /\ {x.id : x \in submissions'} = {x.id : x \in submissions}
           /\ \A x \in submissions' :
                 (x.user = u /\ x.assignment = a) => x.text_content = t
           /\ \A x \in submissions' :
                 ~(x.user = u /\ x.assignment = a) => x \in submissions

\* C11: after any run of submit_assignment POSTs there is at most one
\* Submission row per (user, assignment); a second successful submission of
\* the pair updates the existing row and creates none.
C11_OneSubmissionPerPair == []UniqueSubmission /\ [][ResubmitUpdates]_vars

\* The student has submitted twice with success and holds one row, which
\* carries the text of the resubmission.
C11_Witness ==
    /\ response = CourseworkResponse("submit_assignment", "student",
                                     "redirect_assignment_detail", "c1")
    /\ \E p \in user_progress :
          p.user = "student" /\ p.assignments_submitted = 2
    /\ \E x \in submissions :
          /\ SubmissionRows("student", "a1") = {x}
          /\ x.text_content = "final"

(***************************************************************************)
(* Properties of the instructor views.                                     *)
(***************************************************************************)
SubmissionCourse(x) == TheRow(ByAssignmentId(x.assignment)).course
SubmissionInstructor(x) == courses[SubmissionCourse(x)].instructor

\* The answer to a grading POST of the instructor of the submission's
\* course, and the row it leaves.
GradeStored ==
    ByView("instructor_grade_submission") =>
        \A x \in submissions :
            ( /\ x.id = response.context.submission_id
              /\ response.context.method = "POST"
              /\ response.user = SubmissionInstructor(x) )
            => LET posted == response.context.grade IN
               IF posted.kind = "text"
                  THEN response.outcome = "500"
                  ELSE /\ response.outcome = "redirect_submissions_list"
                       /\ x.grade = IF posted.kind = "absent" THEN GradeNull
                                    ELSE Grade(posted.value)
                       /\ x.feedback = response.context.feedback
                       /\ x.is_graded
                       /\ x.graded_by = response.user
                       /\ x.graded_at = now

\* A grading request leaves every Submission of a course the requester does
\* not instruct as it was.
GradeOnlyByInstructor ==
    response'.view = "instructor_grade_submission" =>
        \A x \in submissions :
            SubmissionInstructor(x) # response'.user => x \in submissions'

C13_NoMaxPointsCheck ==
    ByView("instructor_grade_submission") =>
        \A x \in submissions :
            LET posted == response.context.grade IN
            ( /\ x.id = response.context.submission_id
              /\ response.context.method = "POST"
              /\ response.user = SubmissionInstructor(x)
              /\ posted.kind = "number"
              /\ posted.value > TheRow(ByAssignmentId(x.assignment)).max_points )
            => /\ response.outcome = "redirect_submissions_list"
               /\ x.grade = Grade(posted.value)
               /\ x.is_graded

\* A grade of 101 is stored on a submission of an assignment worth 50.
C13_Witness ==
    /\ response.view = "instructor_grade_submission"
    /\ response.outcome = "redirect_submissions_list"
    /\ \E x \in submissions :
          /\ x.grade = Grade(101) /\ x.is_graded
          /\ TheRow(ByAssignmentId(x.assignment)).max_points = 50

InstructorViews ==
    {"instructor_course_edit", "instructor_manage_modules",
     "instructor_lesson_create", "instructor_lesson_edit",
     "instructor_assignment_create", "instructor_assignment_edit",
     "instructor_submissions_list", "instructor_grade_submission"}

LessonsIn(c) ==
    {l \in lessons : \E m \in modules : m.id = l.module /\ m.course = c}
AssignmentsIn(c) == {a \in assignments : a.course = c}
SubmissionsIn(c) ==
    {x \in submissions : \E a \in AssignmentsIn(c) :
                            a.assignment_id = x.assignment}

\* The rows of course c: its Course row, modules, lessons, assignments and
\* submissions.
RowsOf(c) ==
    <<courses[c], ModulesOf(c), LessonsIn(c), AssignmentsIn(c),
      SubmissionsIn(c)>>

InstructorFrame ==
    response'.view \in InstructorViews =>
        \A c \in CourseIds :
            courses[c].instructor # response'.user => RowsOf(c)' = RowsOf(c)

\* C17: an instructor management request changes rows only of courses whose
\* instructor is the requester: the Course, CourseModule, Lesson, Assignment
\* and Submission rows of every other course stay as they were.
C17_InstructorFrame == [][InstructorFrame]_vars

\* The lecturer, who instructs c2, asked to edit a lesson of c1, which the
\* teacher had created, and was turned away; the lesson keeps its title.
C17_Witness ==
    /\ response = Response("instructor_lesson_edit", "lecturer",
                           "redirect_instructor_dashboard")
    /\ \E l \in LessonsIn("c1") : l.title = "t0"

CourseworkViews ==
    {"course_module_detail", "lesson_detail", "assignment_detail",
     "submit_assignment"}

\* A request about a course the requester has no Enrollment row for is
\* redirected and leaves the UserProgress and Submission tables as they were.
NotEnrolledRefused ==
    ( /\ response'.view \in CourseworkViews
      /\ response'.context.course # None
      /\ EnrollmentRows(response'.user, response'.context.course) = {} )
    => /\ response'.outcome \in {"redirect_course_detail", "redirect_login"}
       /\ UNCHANGED <<user_progress, submissions>>

\* C14: a user with no Enrollment row for a course never views its modules,
\* lessons or assignments and never creates or updates a Submission for it:
\* course_module_detail, lesson_detail, assignment_detail and
\* submit_assignment redirect the user and change no UserProgress or
\* Submission row.
C14_EnrollmentRequired == [][NotEnrolledRefused]_vars

\* The pupil, enrolled in c2 only, posted a submission for a1 of c1 and was
\* redirected, after the student had submitted to a1.
C14_Witness ==
    /\ response = CourseworkResponse("submit_assignment", "pupil",
                                     "redirect_course_detail", "c1")
    /\ EnrollmentRows("pupil", "c2") # {}
    /\ SubmissionRows("student", "a1") # {}
    /\ SubmissionRows("pupil", "a1") = {}

(***************************************************************************)
(* Properties of the parent views.                                         *)
(***************************************************************************)
UniqueConnection ==
    \A p \in Accounts, st \in Accounts :
        Cardinality(ConnectionRows(p, st)) <= 1

\* A row that a step adds to the table was added by parent_connect for a
\* requester of role 'parent', names a user of role 'student', and is not
\* verified.
ConnectionCreated ==
    \A x \in parent_connections' :
        (~\E y \in parent_connections : y.id = x.id) =>
            /\ response' = Response("parent_connect", x.parent,
                                    "redirect_parent_dashboard")
            /\ role(x.parent) = "parent"
            /\ role(x.student) = "student"
            /\ ~x.is_verified

\* C18: after any interleaving of parent_connect requests there is at most
\* one ParentConnection per (parent, student); a connection is created only
\* for a requester of role 'parent' and the email of a user of role
\* 'student', and is created with is_verified false.
C18_ParentConnection == []UniqueConnection /\ [][ConnectionCreated]_vars

\* A second request of the parent for the same student was refused by the
\* unique constraint: one unverified row exists.
C18_Witness ==
    /\ response = Response("parent_connect", "parent", "500")
    /\ \E x \in parent_connections :
          /\ ConnectionRows("parent", "student") = {x}
          /\ ~x.is_verified

(***************************************************************************)
(* Properties of the refusals.                                             *)
(***************************************************************************)
GuardedViews ==
    {"blog_detail", "note_detail", "document_detail", "document_download",
     "parent_connect", "parent_cancel_connection"}

\* The outcomes that are no refusal: the page, the file, the redirect after
\* a successful POST, a server error, and the answer to a wrong method.
Served == {"render", "file", "redirect_parent_dashboard", "500", "405"}

IsRefusal == response.view \in GuardedViews /\ response.outcome \notin Served

Refusals(view) ==
    CASE view = "blog_detail" -> {"redirect_login", "404", "redirect_course_list"}
      [] view = "note_detail" -> {"redirect_login", "404", "redirect_course_detail"}
      [] view = "document_detail" -> {"redirect_login", "404"}
      [] view = "document_download" ->
            {"redirect_login", "404", "redirect_document_detail"}
      [] view = "parent_connect" -> {"redirect_login", "redirect_dashboard"}
      [] view = "parent_cancel_connection" -> {"redirect_login", "403", "404"}

ContentViews ==
    {"blog_detail", "note_detail", "document_detail", "document_download"}

\* The content row of the store is not published.
Unpublished == \A x \in blog_posts \cup notes \cup documents : ~x.is_published

\* C16: unpublished content is never served: blog_detail, note_detail,
\* document_detail and document_download refuse every requester who is not
\* staff when the BlogPost, Note or Document has is_published false, and
\* document_download leaves download_count as it was.
C16_UnpublishedRefused ==
    ( /\ response.view \in ContentViews
      /\ Unpublished
      /\ ~is_staff(response.user) /\ ~is_superuser(response.user) )
    => /\ response.outcome \in {"404", "redirect_login"}
       /\ \A d \in documents : d.download_count = InitDocument.download_count

(***************************************************************************)
(* Properties of the contact view.                                         *)
(***************************************************************************)
\* The message a request is about to announce is already in the table, and
\* so is every message that was announced.
SavedBeforeMail ==
    /\ \A r \in Slots :
          contact_requests[r].pc = "send_mail" =>
             contact_requests[r].contact_message \in 1..Len(contact_messages)
    /\ \A i \in 1..Len(outbox) : outbox[i] \in 1..Len(contact_messages)

\* The step that attempts the mail, whatever send_mail does: the table is
\* left as it is and the request ends with the redirect to the contact page.
MailNeverFails ==
    \A r \in Slots :
       (contact_requests[r].pc = "send_mail"
           /\ contact_requests'[r].pc = "idle") =>
          /\ contact_messages' = contact_messages
          /\ response'.view = "contact"
          /\ response'.outcome = "redirect_contact"

\* C19: in the contact handler the ContactMessage is persisted before the
\* notification email is attempted, and a failure of the email send neither
\* removes the saved message nor produces an error response: the request
\* still ends with a redirect to the contact page.
C19_ContactMailBestEffort == []SavedBeforeMail /\ [][MailNeverFails]_vars

\* A request whose mail raised has been answered with the redirect and a
\* warning, its message is in the table and nothing was sent.
C19_Witness ==
    /\ response.view = "contact"
    /\ response.outcome = "redirect_contact"
    /\ response.context.level = "warning"
    /\ Len(contact_messages) = 1
    /\ outbox = <<>>
    /\ \A r \in Slots : contact_requests[r].pc = "idle"

(***************************************************************************)
(* Properties of the superuser bootstrap.                                  *)
(***************************************************************************)
Superusers == {a \in auth_users : a.username = username}

AtMostOneSuperuser == Cardinality(Superusers) <= 1

\* Every run of ready() has ended with the process running, whether the
\* bootstrap created the user, found it, or raised.
StartupContinues ==
    \A p \in Processes :
       /\ startups[p].pc = "running" =>
             startups[p].result \in {"created", "exists", "skipped"}
       /\ startups[p].pc \in {"idle", "create", "running"}

\* A run that starts when the user is there leaves the table as it is.
FoundCreatesNothing ==
    \A p \in Processes :
       (startups[p].pc = "idle" /\ startups'[p].pc # "idle"
           /\ Superusers # {}) =>
          /\ auth_users' = auth_users
          /\ startups'[p].pc = "running"
          /\ startups'[p].result \in {"exists", "skipped"}

\* C20: the startup superuser bootstrap is idempotent and non-fatal: after
\* any number of runs of create_superuser_if_none there is at most one user
\* with the predefined username, a run that finds that user creates nothing,
\* and an exception raised inside the bootstrap is caught in
\* PortfolioConfig.ready so that startup continues.
C20_BootstrapIdempotent ==
    [](AtMostOneSuperuser /\ StartupContinues) /\ [][FoundCreatesNothing]_vars

\* Two processes raced: one created the user, the other found the name taken
\* at the insert, and both are running.
C20_Witness ==
    /\ Cardinality(Superusers) = 1
    /\ \E p, q \in Processes :
          /\ startups[p] = [pc |-> "running", result |-> "created"]
          /\ startups[q] = [pc |-> "running", result |-> "skipped"]

(***************************************************************************)
(* Properties of the counters under concurrent requests.                   *)
(***************************************************************************)
\* The save of a request writes the value it loaded plus 1, whatever the
\* stored value has become since the load.
SaveWritesLoaded ==
    \A r \in Slots :
       (view_requests[r].pc = "save" /\ view_requests'[r].pc = "idle") =>
          LET q == view_requests[r] IN
          IF q.view = "blog_detail"
             THEN \A b \in blog_posts' : b.views = q.loaded.views + 1
             ELSE \A d \in documents' :
                     d.download_count = q.loaded.download_count + 1

\* The download counter never exceeds the number of files served.
NeverOvercounts == \A d \in documents : d.download_count <= served

\* C21: the view and download counters are updated by an unprotected
\* read-increment-write: when two permitted requests for the same item
\* interleave so that both read the counter before either writes, the
\* counter ends up increased by 1 instead of 2.
C21_LostUpdate == []NeverOvercounts /\ [][SaveWritesLoaded]_vars

\* Two downloads were served, both had loaded the counter at 0, and the
\* counter is 1.
C21_Witness ==
    /\ served = 2
    /\ \A d \in documents : d.download_count = 1
    /\ response.view = "document_download"
    /\ response.outcome = "file"
    /\ response.context.loaded.download_count = 0
    /\ \A r \in Slots : view_requests[r].pc = "idle"

(***************************************************************************)
(* Properties of enroll_course on partial failure.                         *)
(***************************************************************************)
\* The step in which the INSERT of the UserProgress row fails keeps the
\* Enrollment table as it is, the row the request created included.
NoRollback ==
    \A r \in Slots :
       (requests[r].pc = "create_progress" /\ requests'[r].pc = "idle"
           /\ response'.outcome = "500") =>
          /\ enrollments' = enrollments
          /\ user_progress' = user_progress
          /\ \A e \in enrollments :
                e.id = requests[r].enrollment => e \in enrollments'

\* C22: the writes of enroll_course are not rolled back on partial failure:
\* if creating the UserProgress row fails after the Enrollment row was
\* created, the Enrollment row created by that request remains in the store.
C22_NoRollback == [][NoRollback]_vars

\* A request answered 500 after it had created an Enrollment, and that row
\* is in the table.
C22_Witness ==
    /\ response.view = "enroll_course"
    /\ response.outcome = "500"
    /\ response.context.enrollment # 0
    /\ \E e \in enrollments :
          /\ e.id = response.context.enrollment
          /\ e.user = response.user

(***************************************************************************)
(* Properties of the document listings.                                    *)
(***************************************************************************)
ListingViews == {"documents_list", "ResourceListView"}

\* C23: every document that documents_list or ResourceListView shows to a
\* non-staff user is a document that document_download would serve to that
\* same user.
C23_ListedIsDownloadable ==
    (response.view \in ListingViews /\ ~is_staff(response.user)) =>
       \A slug \in response.context.documents :
          document_download_outcome(response.user, BySlug(documents, slug))
             = "file"

\* The same for the users that are neither staff nor superuser.
ListedIsDownloadableOrdinary ==
    (response.view \in ListingViews /\ ~is_staff(response.user)
        /\ ~is_superuser(response.user)) =>
       \A slug \in response.context.documents :
          document_download_outcome(response.user, BySlug(documents, slug))
             = "file"

(***************************************************************************)
(* Properties of logging in and of verifying the email address.            *)
(***************************************************************************)
\* C24: no sequence of login requests gives an authenticated session to a
\* user whose role is not 'visitor' and whose email_verified is false.
C24_UnverifiedNeverLoggedIn ==
    \A u \in sessions : role(u) = "visitor" \/ u \in email_verified

\* course_login alone keeps it: a step of course_login that opens a session
\* opens it for a visitor or a verified user.
CourseLoginRefusesUnverified ==
    \A u \in Logins :
       (u \notin sessions /\ u \in sessions'
           /\ response'.view = "course_login") =>
          (role(u) = "visitor" \/ u \in email_verified)

CourseLoginGate == [][CourseLoginRefusesUnverified]_vars

Used == {v \in email_verifications : v.is_used}

\* What a request to verify_email does, with the bound on the age of the
\* code as a parameter: a success marks one matching unused row of the
\* requester as used and verifies the requester; anything else changes
\* nothing.
VerifyStep(accepted(_)) ==
    (response'.view = "verify_email" /\ clock' = clock) =>
       IF response'.outcome = "redirect_dashboard"
          THEN \E v \in email_verifications :
                  /\ v.user = response'.user
                  /\ v.code = response'.context.code
                  /\ ~v.is_used
                  /\ accepted(Age(v))
                  /\ email_verifications' =
                        Replace(email_verifications, v,
                                [v EXCEPT !.is_used = TRUE])
                  /\ email_verified' = email_verified \cup {response'.user}
          ELSE /\ email_verified' = email_verified
               /\ email_verifications' = email_verifications

\* No other step verifies a user, and a used row stays used.
OnlyVerifyEmailVerifies ==
    /\ email_verified' # email_verified =>
          (response'.view = "verify_email"
              /\ response'.outcome = "redirect_dashboard")
    /\ \A v \in Used : v \in email_verifications'

LessThan24(age) == age < 24
AtMost24(age) == age <= 24

\* C25 as stated: the code that verifies is less than 24 hours old.
C25_Original == [][VerifyStep(LessThan24) /\ OnlyVerifyEmailVerifies]_vars

\* C25: verify_email sets the requesting user's email_verified to true only
\* when the submitted code matches an EmailVerification row of that same
\* user that is unused and not more than 24 hours old; on success that row
\* is marked used, so one row verifies at most once, and a failed attempt
\* changes neither email_verified nor any row's is_used flag.
C25_VerifyEmail == [][VerifyStep(AtMost24) /\ OnlyVerifyEmailVerifies]_vars

\* The student was verified by a code that is now used, and a later attempt
\* with the same code failed.
C25_Witness ==
    /\ response.view = "verify_email"
    /\ response.outcome = "render"
    /\ response.context.method = "POST"
    /\ response.user \in email_verified
    /\ \E v \in Used : v.user = response.user /\ v.code = response.context.code
    /\ \A v \in email_verifications : v.is_used

(***************************************************************************)
(* Properties of booking a meeting.                                        *)
(***************************************************************************)
\* No user has two rows in the table of attendees.
NoDoubleBooking ==
    \A a, b \in meeting_attendees : a.user = b.user => a = b

\* C26: for a Meeting with max_attendees set, after any sequence of booking
\* POSTs to meeting_detail, concurrent ones included, the number of
\* attendees never exceeds max_attendees, and no user is recorded as
\* attendee more than once.
C26_CapacityRespected ==
    /\ ~meeting.max_attendees.null =>
          Cardinality(meeting_attendees) <= meeting.max_attendees.value
    /\ NoDoubleBooking

(***************************************************************************)
(* Properties of the order of the modules.                                 *)
(***************************************************************************)
Orders(c) == {m.order : m \in ModulesOf(c)}

\* The orders of the modules of every course are 1..n, each held once.
OrdersAreDense ==
    \A c \in CourseIds :
       /\ Orders(c) = 1..Cardinality(ModulesOf(c))
       /\ \A m, n \in ModulesOf(c) : m.order = n.order => m = n

\* No request to the view fails on the unique pair.
NoIntegrityError ==
    response.view = "instructor_manage_modules" => response.outcome # "500"

\* C27: starting from a course with no modules, after any sequence of
\* add_module and delete_module actions through instructor_manage_modules
\* the 'order' values of the course's modules are exactly 1..n with no gaps
\* and no duplicates, so the (course, order) uniqueness constraint is never
\* violated by these actions.
C27_ModuleOrder == OrdersAreDense /\ NoIntegrityError

\* Three modules were added, the one in the middle was deleted and another
\* was added: the first and the third module hold orders 1 and 2.
C27_Witness ==
    /\ response.view = "instructor_manage_modules"
    /\ response.outcome = "redirect_manage_modules"
    /\ \E m, n \in ModulesOf("c1") :
          /\ m.id = 1 /\ m.order = 1
          /\ n.id = 3 /\ n.order = 2
    /\ Cardinality(ModulesOf("c1")) = 2

(***************************************************************************)
(* Properties of the counter of submitted assignments.                     *)
(***************************************************************************)
SubmissionsOf(u, c) ==
    {x \in submissions : x.user = u /\ AssignmentCourse(x.assignment) = c}

\* C28: after any sequence of submit_assignment requests, a user's
\* UserProgress.assignments_submitted for a course equals the number of
\* Submission rows that user has for assignments of that course;
\* resubmitting an already-submitted assignment does not raise the counter.
C28_SubmittedCounter ==
    \A p \in user_progress :
       p.assignments_submitted = Cardinality(SubmissionsOf(p.user, p.course))

(***************************************************************************)
(* Pricing and enrolment.                                                  *)
(***************************************************************************)
FreeIffPriceZero ==
    \A c \in CourseIds : courses[c].is_free <=> (courses[c].price = 0)

\* An Enrollment row enroll_course adds belongs to a course without a price.
EnrolOnlyUnpriced ==
    \A e \in enrollments' \ enrollments : courses[e.course].price = 0

\* A refusal for payment writes neither table.
RefusalWritesNothing ==
    (response' # response /\ response'.view = "enroll_course"
        /\ response'.outcome = "payment_required")
       => UNCHANGED <<enrollments, user_progress>>

\* C29: no Enrollment is created for a course with a price above 0: after
\* every save is_free is true exactly when the price is 0, and enroll_course
\* refuses a course that is not free without writing Enrollment or
\* UserProgress.
C29_PricedNeverEnrolled ==
    /\ []FreeIffPriceZero
    /\ [][EnrolOnlyUnpriced]_vars
    /\ [][RefusalWritesNothing]_vars

C29_FreeFollowsPrice == []FreeIffPriceZero
C29_EnrolOnlyUnpriced == [][EnrolOnlyUnpriced]_vars
C29_RefusalWritesNothing == [][RefusalWritesNothing]_vars

(***************************************************************************)
(* What a parent sees and what a parent cancels.                           *)
(***************************************************************************)
\* A rendered student page belongs to a verified connection of the viewer.
DetailOnlyVerified ==
    response.view = "parent_student_detail" =>
       IF response.outcome = "render"
          THEN \E x \in parent_connections :
                  /\ x.parent = response.user
                  /\ x.student = response.context.student
                  /\ x.is_verified
          ELSE response.context = <<>>

\* The rows of the table a step deletes.
Cancelled ==
    {x \in parent_connections : \A y \in parent_connections' : y.id # x.id}

CancelOnlyOwnUnverified ==
    \A x \in Cancelled :
       /\ response' = Response("parent_cancel_connection", x.parent,
                               "redirect_parent_dashboard")
       /\ ~x.is_verified
       /\ Cardinality(Cancelled) = 1

C30_CancelWitness ==
    /\ response = Response("parent_cancel_connection", "parent",
                           "redirect_parent_dashboard")
    /\ \E x \in parent_connections : x.parent = "guardian"

====
